---- MODULE Spec2Model ----
(***************************************************************************)
(* SudoDog: the policy engine (sudodog/blocker.py), the execution          *)
(* supervisor AgentMonitor.run (sudodog/monitor.py), the `run` command of   *)
(* the CLI with its Docker path (sudodog/cli.py, sudodog/docker_sandbox.py) *)
(* and the session registry AgentSession (sudodog/monitor.py).              *)
(***************************************************************************)
EXTENDS Integers, Sequences, FiniteSets, TLC

(***************************************************************************)
(* Text.  A command is a sequence of one-character strings, so that the    *)
(* regular expressions of the blocker are searched the way `re` searches.  *)
(***************************************************************************)
Lower == <<"a","b","c","d","e","f","g","h","i","j","k","l","m",
           "n","o","p","q","r","s","t","u","v","w","x","y","z">>

Upper == <<"A","B","C","D","E","F","G","H","I","J","K","L","M",
           "N","O","P","Q","R","S","T","U","V","W","X","Y","Z">>

Digits == {"0","1","2","3","4","5","6","7","8","9"}

Range(s) == {s[i] : i \in DOMAIN s}

\* re.IGNORECASE: letters compare by their upper-case form.
Fold(c) ==
    IF c \in Range(Lower) THEN Upper[CHOOSE i \in DOMAIN Lower : Lower[i] = c] ELSE c

\* \s and \w of Python's re on str
IsSpace(c) == c \in {" ", "\t", "\n", "\r"}

IsWord(c) == Fold(c) \in Range(Upper) \/ c \in Digits \/ c = "_"

(***************************************************************************)
(* A compiled pattern is a set of alternatives, each a sequence of atoms:  *)
(*   lit c   one character, case-insensitive                               *)
(*   sp1     \s+        sp0   \s*        w1   \w+                          *)
(*   any0    .*         opt c c?         eol  $                            *)
(*   chr c   one character, case-sensitive          dot  .                  *)
(***************************************************************************)
A_lit(c) == [k |-> "lit", c |-> c]

A_sp1 == [k |-> "sp1", c |-> ""]

A_sp0 == [k |-> "sp0", c |-> ""]

A_w1 == [k |-> "w1", c |-> ""]

A_any0 == [k |-> "any0", c |-> ""]

A_opt(c) == [k |-> "opt", c |-> c]

A_eol == [k |-> "eol", c |-> ""]

A_chr(c) == [k |-> "chr", c |-> c]

A_dot == [k |-> "dot", c |-> ""]

Lit(cs) == [i \in DOMAIN cs |-> A_lit(cs[i])]

\* every character of s[j..k-1] satisfies the class of a repeated atom
AllIn(kind, s, j, k) ==
    \A m \in j..(k-1) :
        CASE kind \in {"sp1", "sp0"} -> IsSpace(s[m])
          [] kind = "w1" -> IsWord(s[m])
          [] OTHER -> s[m] # "\n"

RECURSIVE MatchAt(_, _, _, _)
\* does alternative p, from atom i on, match s starting at position j?
MatchAt(p, i, s, j) ==
    IF i > Len(p) THEN TRUE
    ELSE LET a == p[i] IN
      CASE a.k = "lit" ->
             /\ j <= Len(s)
             /\ Fold(s[j]) = Fold(a.c)
             /\ MatchAt(p, i + 1, s, j + 1)
        [] a.k = "chr" ->
             /\ j <= Len(s)
             /\ s[j] = a.c
             /\ MatchAt(p, i + 1, s, j + 1)
        [] a.k = "dot" ->
             /\ j <= Len(s)
             /\ s[j] # "\n"
             /\ MatchAt(p, i + 1, s, j + 1)
        [] a.k = "opt" ->
             \/ /\ j <= Len(s)
                /\ Fold(s[j]) = Fold(a.c)
                /\ MatchAt(p, i + 1, s, j + 1)
             \/ MatchAt(p, i + 1, s, j)
        [] a.k = "eol" ->
             /\ \/ j = Len(s) + 1
                \/ j = Len(s) /\ s[j] = "\n"
             /\ MatchAt(p, i + 1, s, j)
        [] OTHER ->
             \E k \in (IF a.k \in {"sp1", "w1"} THEN j + 1 ELSE j)..(Len(s) + 1) :
                 AllIn(a.k, s, j, k) /\ MatchAt(p, i + 1, s, k)

\* pattern.search(command): some alternative matches at some position
Search(alts, s) ==
    \E p \in alts : \E j \in 1..(Len(s) + 1) : MatchAt(p, 1, s, j)

(***************************************************************************)
(* AgentBlocker.DANGEROUS_PATTERNS, in declaration order: the source text  *)
(* of each pattern (pattern.pattern) and its compiled form.                *)
(***************************************************************************)
DANGEROUS_PATTERNS ==
    << "DROP\\s+TABLE", "DROP\\s+DATABASE", "TRUNCATE\\s+TABLE",
       "DELETE\\s+FROM\\s+\\w+\\s*;?\\s*$",
       "rm\\s+-rf\\s+/", "rm\\s+-rf\\s+\\*", "sudo\\s+rm", "chmod\\s+777",
       "mkfs\\.", "dd\\s+if=", ":(){ :|:& };:",
       "curl.*pastebin", "wget.*pastebin" >>

W_DROP == Lit(<<"D","R","O","P">>)

W_TABLE == Lit(<<"T","A","B","L","E">>)

W_pastebin == Lit(<<"p","a","s","t","e","b","i","n">>)

W_rm_rf == Lit(<<"r","m">>) \o <<A_sp1>> \o Lit(<<"-","r","f">>) \o <<A_sp1>>

compiled_patterns ==
    << {W_DROP \o <<A_sp1>> \o W_TABLE},
       {W_DROP \o <<A_sp1>> \o Lit(<<"D","A","T","A","B","A","S","E">>)},
       {Lit(<<"T","R","U","N","C","A","T","E">>) \o <<A_sp1>> \o W_TABLE},
       {Lit(<<"D","E","L","E","T","E">>) \o <<A_sp1>> \o Lit(<<"F","R","O","M">>)
          \o <<A_sp1, A_w1, A_sp0, A_opt(";"), A_sp0, A_eol>>},
       {W_rm_rf \o Lit(<<"/">>)},
       {W_rm_rf \o Lit(<<"*">>)},
       {Lit(<<"s","u","d","o">>) \o <<A_sp1>> \o Lit(<<"r","m">>)},
       {Lit(<<"c","h","m","o","d">>) \o <<A_sp1>> \o Lit(<<"7","7","7">>)},
       {Lit(<<"m","k","f","s",".">>)},
       {Lit(<<"d","d">>) \o <<A_sp1>> \o Lit(<<"i","f","=">>)},
       \* ':(){ :|:& };:' parses as ':' ( '()' '{ :'  |  '& };:' )
       {Lit(<<":","{"," ",":">>), Lit(<<":","&"," ","}",";",":">>)},
       {Lit(<<"c","u","r","l">>) \o <<A_any0>> \o W_pastebin},
       {Lit(<<"w","g","e","t">>) \o <<A_any0>> \o W_pastebin} >>

None == <<>>

\* a loop that stops at the first pattern that matches
RECURSIVE Matched_first(_, _)
Matched_first(command, i) ==
    IF i > Len(compiled_patterns) THEN <<>>
    ELSE IF Search(compiled_patterns[i], command) THEN <<DANGEROUS_PATTERNS[i]>>
    ELSE Matched_first(command, i + 1)

RECURSIVE Matched(_, _)
\* the loop of check_command over compiled_patterns[i..], in order
Matched(command, i) ==
    IF i > Len(compiled_patterns) THEN <<>>
    ELSE (IF Search(compiled_patterns[i], command)
             THEN <<DANGEROUS_PATTERNS[i]>> ELSE <<>>)
         \o Matched(command, i + 1)

Prefix(s, n) == SubSeq(s, 1, IF Len(s) < n THEN Len(s) ELSE n)

\* AgentBlocker.check_command: (allowed, reason, matched_patterns)
check_command(command) ==
    LET matched_patterns == Matched(command, 1) IN
    IF matched_patterns # <<>>
      THEN [allowed |-> FALSE,
            reason |-> <<"Command contains dangerous patterns: ">>
                          \o Prefix(matched_patterns, 2),
            matched_patterns |-> matched_patterns]
      ELSE [allowed |-> TRUE, reason |-> None, matched_patterns |-> <<>>]

(***************************************************************************)
(* File-read policy.  Paths are sequences of characters too.               *)
(***************************************************************************)
\* the invoking user's home directory, as os.path.expanduser finds it
HOME == <<"/","h">>

BLOCKED_READ_PATHS ==
    << <<"/","e","t","c","/","s","h","a","d","o","w">>,
       <<"/","e","t","c","/","p","a","s","s","w","d">>,
       <<"/","e","t","c","/","s","u","d","o","e","r","s">>,
       <<"~","/",".","s","s","h","/","i","d","_","r","s","a">>,
       <<"~","/",".","s","s","h","/","i","d","_","e","d","2","5","5","1","9">>,
       <<"~","/",".","a","w","s","/","c","r","e","d","e","n","t","i","a","l","s">>,
       <<"~","/",".","c","o","n","f","i","g","/","g","c","l","o","u","d","/">>,
       <<".","e","n","v">>,
       <<".","e","n","v",".","l","o","c","a","l">>,
       <<".","e","n","v",".","p","r","o","d","u","c","t","i","o","n">>,
       <<"~","/",".","d","o","c","k","e","r","/","c","o","n","f","i","g",".","j","s","o","n">>,
       <<"~","/",".","k","u","b","e","/","c","o","n","f","i","g">> >>

StartsWith(s, pre) == Len(pre) <= Len(s) /\ SubSeq(s, 1, Len(pre)) = pre

EndsWith(s, suf) ==
    Len(suf) <= Len(s) /\ SubSeq(s, Len(s) - Len(suf) + 1, Len(s)) = suf

\* os.path.expanduser for "~" and "~/..."
expanduser(path) ==
    IF path # <<>> /\ path[1] = "~" /\ (Len(path) = 1 \/ path[2] = "/")
      THEN HOME \o Tail(path)
      ELSE path

\* blocked.replace('*', '.*') compiled as a regular expression
GlobPattern(blocked) ==
    [i \in DOMAIN blocked |->
        IF blocked[i] = "*" THEN A_any0
        ELSE IF blocked[i] = "." THEN A_dot
        ELSE A_chr(blocked[i])]

\* an iteration that tests for the directory before it tests for equality
ReadRule_dirfirst(path, blocked) ==
    LET expanded_path == expanduser(path)
        blocked_expanded == expanduser(blocked) IN
    IF EndsWith(blocked_expanded, <<"/">>)
            /\ StartsWith(expanded_path, blocked_expanded)
      THEN <<"Access to ">> \o path \o <<" is blocked (sensitive directory)">>
    ELSE IF expanded_path = blocked_expanded
      THEN <<"Access to ">> \o path \o <<" is blocked (sensitive file)">>
    ELSE None

\* one iteration of the loop of check_file_read: the reason, or None
ReadRule(path, blocked) ==
    LET expanded_path == expanduser(path)
        blocked_expanded == expanduser(blocked) IN
    IF expanded_path = blocked_expanded
      THEN <<"Access to ">> \o path \o <<" is blocked (sensitive file)">>
    ELSE IF EndsWith(blocked_expanded, <<"/">>)
            /\ StartsWith(expanded_path, blocked_expanded)
      THEN <<"Access to ">> \o path \o <<" is blocked (sensitive directory)">>
    ELSE IF "*" \in Range(blocked) /\ Search({GlobPattern(blocked)}, path)
      THEN <<"Access to ">> \o path \o <<" is blocked (matches sensitive pattern)">>
    ELSE None

RECURSIVE ReadLoop(_, _)
ReadLoop(path, i) ==
    IF i > Len(BLOCKED_READ_PATHS) THEN [allowed |-> TRUE, reason |-> None]
    ELSE IF ReadRule(path, BLOCKED_READ_PATHS[i]) # None
      THEN [allowed |-> FALSE, reason |-> ReadRule(path, BLOCKED_READ_PATHS[i])]
    ELSE ReadLoop(path, i + 1)

\* AgentBlocker.check_file_read: (allowed, reason)
check_file_read(path) == ReadLoop(path, 1)

BLOCKED_WRITE_PATHS ==
    << <<"/","e","t","c","/">>,
       <<"/","u","s","r","/","b","i","n","/">>,
       <<"/","u","s","r","/","s","b","i","n","/">>,
       <<"/","b","i","n","/">>,
       <<"/","s","b","i","n","/">>,
       <<"/","b","o","o","t","/">>,
       <<"/","s","y","s","/">>,
       <<"/","p","r","o","c","/">> >>

RECURSIVE WriteLoop(_, _)
\* the loop of check_file_write over BLOCKED_WRITE_PATHS[i..]: the blocked
\* entry is taken as written, only the path is expanded
WriteLoop(path, i) ==
    IF i > Len(BLOCKED_WRITE_PATHS) THEN [allowed |-> TRUE, reason |-> None]
    ELSE IF StartsWith(expanduser(path), BLOCKED_WRITE_PATHS[i])
      THEN [allowed |-> FALSE,
            reason |-> <<"Write to ">> \o path \o <<" is blocked (system directory)">>]
    ELSE WriteLoop(path, i + 1)

\* AgentBlocker.check_file_write: (allowed, reason)
check_file_write(path) == WriteLoop(path, 1)

\* a dispatch that hands an unknown action kind to the command check
should_block_unknown(action_type, target) ==
    IF action_type = "file_read"
      THEN [block |-> ~check_file_read(target).allowed,
            reason |-> check_file_read(target).reason]
    ELSE IF action_type = "file_write"
      THEN [block |-> ~check_file_write(target).allowed,
            reason |-> check_file_write(target).reason]
    ELSE [block |-> ~check_command(target).allowed,
          reason |-> check_command(target).reason]

\* AgentBlocker.should_block: (should_block, reason)
should_block(action_type, target) ==
    IF action_type = "file_read"
      THEN [block |-> ~check_file_read(target).allowed,
            reason |-> check_file_read(target).reason]
    ELSE IF action_type = "file_write"
      THEN [block |-> ~check_file_write(target).allowed,
            reason |-> check_file_write(target).reason]
    ELSE IF action_type = "command"
      THEN [block |-> ~check_command(target).allowed,
            reason |-> check_command(target).reason]
    ELSE [block |-> FALSE, reason |-> None]

(***************************************************************************)
(* State of one `sudodog run`: AgentMonitor (namespace mode) or the        *)
(* DockerSandbox block of the CLI (Docker mode).                           *)
(***************************************************************************)
VARIABLES
    mode,           \* "namespace" | "docker": the --docker flag of `run`
    command,        \* cmd_string / self.command
    pc,             \* the statement of run() that executes next
    actions,        \* self.actions
    log_file,       \* the lines of ~/.sudodog/logs/<session_id>.jsonl
    blocked_count,  \* self.blocked_count
    process,        \* self.process: "None" | "Popen"
    child,          \* the spawned process: "none" | "running" | "exited" | "terminated"
    child_status,   \* the exit status of the child once it has exited
    open_files,     \* the handles of psutil open_files() not yet inspected
    pending,        \* the exception in flight ("" when none)
    outcome,        \* how run() ended: [kind, code, exc]
    container,      \* sandbox.container: "None" | "created" | "running" | "exited" | "stopped" | "removed"
    result,         \* result['exit_code'] of DockerSandbox.wait
    screened,       \* check_command has been evaluated on the command
    spawned,        \* number of child processes started
    log_fault,      \* some write to the log file has failed
    intr,           \* an interrupt arrived: "none" | "pre" | "post" (after the launch)
    failure,        \* the failure other than an interrupt raised inside the try block
    swallowed,      \* open_files() raised AccessDenied / NoSuchProcess
    engine_fault,   \* a stop or remove call to the Docker engine has failed
    calls,          \* the stop() and cleanup() calls made on the DockerSandbox so far
    handles         \* the open files psutil reported for the child

run_vars == << mode, command, pc, actions, log_file, blocked_count, process, child,
               child_status, open_files, pending, outcome, container, result,
               screened, spawned, log_fault, intr, failure, swallowed, engine_fault, calls, handles >>

(***************************************************************************)
(* State of the session registry ~/.sudodog/sessions.json and of the       *)
(* processes that call AgentSession on it.  An entry is written as its     *)
(* session_id; the file is the sequence of the entries followed by END,    *)
(* the closing bracket of the JSON array.                                  *)
(***************************************************************************)
VARIABLES
    file_exists,    \* sessions_file.exists()
    file_data,      \* the content of the sessions file
    registry0,      \* the sessions registered before the calls began
    op,             \* op[p]: the call process p makes for its own session id
    rpc,            \* rpc[p]: the statement of that call that executes next
    sessions,       \* sessions[p]: the local variable `sessions` of the call
    phase,          \* of the single caller: "idle" | "called" | "listed"
    last_call,      \* its last add_session / remove_session call
    before,         \* the registry before that call
    listed          \* what its list_active() returned after the call

reg_vars == << file_exists, file_data, registry0, op, rpc, sessions, phase,
               last_call, before, listed >>

\* no AgentSession call is under way
RegIdle ==
    /\ file_exists = FALSE
    /\ file_data = <<>>
    /\ registry0 = <<>>
    /\ op = <<>>
    /\ rpc = <<>>
    /\ sessions = <<>>
    /\ phase = "idle"
    /\ last_call = [op |-> "none", session_id |-> 0]
    /\ before = <<>>
    /\ listed = <<>>

(***************************************************************************)
(* State of the `sudodog run` commands (namespace path, cli.py 140-182)    *)
(* that run side by side as separate OS processes on one machine, and of   *)
(* what they share: the clock, ~/.sudodog/logs and ~/.sudodog/backups.     *)
(* The registry file they share is file_exists / file_data above, and      *)
(* sessions[p] is the local list of the AgentSession call p is in.         *)
(***************************************************************************)
VARIABLES
    now,            \* the wall clock, in ticks
    cpc,            \* cpc[p]: the statement of cli.run that p executes next
    monitor,        \* monitor[p]: session_id and log_file of p's AgentMonitor
    backup_dir,     \* backup_dir[p]: monitor.rollback.backup_dir of p
    logs,           \* logs[f]: the lines of log file f, each as its writer
    backups,        \* the directories that exist under ~/.sudodog/backups
    began,          \* began[p]: monitor.run() of p has been entered
    ended,          \* ended[p]: how monitor.run() of p ended
    cli_intr        \* an interrupt arrived in cli.run outside monitor.run()

cli_vars == << now, cpc, monitor, backup_dir, logs, backups, began, ended,
               cli_intr >>

\* no `sudodog run` is under way
CliIdle ==
    /\ now = 0
    /\ cpc = <<>>
    /\ monitor = <<>>
    /\ backup_dir = <<>>
    /\ logs = <<>>
    /\ backups = {}
    /\ began = <<>>
    /\ ended = <<>>
    /\ cli_intr = FALSE

(***************************************************************************)
(* State of one FileRollback (blocker.py 160-258) and of the file system   *)
(* it works on.  A path is [dir, stem, suffix]; a file is written as its   *)
(* content, "absent" when there is no such file.                           *)
(***************************************************************************)
VARIABLES
    files,          \* files[path]: the content of the live file at path
    backup_files,   \* the files in self.backup_dir: name :> content
    operations,     \* self.operations
    captured,       \* captured[i]: what operations[i] saw at its path
    last,           \* the last call on the FileRollback and what it did
    dir_exists      \* self.backup_dir exists

rb_vars == << files, backup_files, operations, captured, last, dir_exists >>

\* no call on the FileRollback has been made
NoCall ==
    [call |-> "none", path |-> [dir |-> "", stem |-> <<>>, suffix |-> ""],
     given |-> FALSE, steps |-> 0, ret |-> FALSE, rolled_back |-> 0,
     errors |-> <<>>, processed |-> <<>>, changed |-> {},
     again |-> FALSE, errors_before |-> <<>>, operations_before |-> <<>>]

\* no FileRollback is in use
RbIdle ==
    /\ files = <<>>
    /\ backup_files = <<>>
    /\ operations = <<>>
    /\ captured = <<>>
    /\ last = NoCall
    /\ dir_exists = TRUE

(***************************************************************************)
(* A call of the AgentBlocker on one target (blocker.py 70-131).           *)
(***************************************************************************)
VARIABLES
    chk_kind,       \* the method called: "command" | "file_read" | "file_write" | "should_block"
    chk_action,     \* the action_type handed to should_block
    chk_target,     \* the command or the path handed to the blocker
    called,         \* the check has been made
    verdict         \* what the check returned

chk_vars == << chk_kind, chk_action, chk_target, called, verdict >>

\* no check is under way
ChkIdle ==
    /\ chk_kind = "none"
    /\ chk_action = "none"
    /\ chk_target = <<>>
    /\ called = FALSE
    /\ verdict = <<>>

(***************************************************************************)
(* The monitoring daemon (daemon.py): the PID file and the processes that  *)
(* `sudodog daemon start` creates.                                         *)
(***************************************************************************)
VARIABLES
    pid_file,       \* the pid written in ~/.sudodog/daemon.pid, 0 when the file is absent
    alive,          \* the pids of the processes that exist
    looping,        \* the pids of the processes inside monitor_loop
    dpc,            \* dpc[c]: where the c-th `daemon start` command is in start()
    foreground      \* foreground[c]: the command was given --foreground

dmn_vars == << pid_file, alive, looping, dpc, foreground >>

\* no daemon command is under way
DmnIdle ==
    /\ pid_file = 0
    /\ alive = {}
    /\ looping = {}
    /\ dpc = <<>>
    /\ foreground = <<>>

ext_vars == << cli_vars, rb_vars, chk_vars, dmn_vars >>

ExtIdle == CliIdle /\ RbIdle /\ ChkIdle /\ DmnIdle

CmdEcho == <<"e","c","h","o"," ","h","i">>

CmdLs == <<"l","s">>

CmdDrop == <<"D","R","O","P"," ","T","A","B","L","E"," ","u",";">>

CmdSudoRm == <<"s","u","d","o"," ","r","m"," ","-","r","f"," ","/">>

Commands == {CmdEcho, CmdLs, CmdDrop, CmdSudoRm}

F_passwd == [path |-> <<"/","e","t","c","/","p","a","s","s","w","d">>, mode |-> "r"]

F_tmp == [path |-> <<"/","t","m","p","/","x">>, mode |-> "w"]

\* what psutil's open_files() may return for the child
OpenFileLists == {<<>>, <<F_tmp>>, <<F_passwd, F_tmp>>}

ExitCodes == {0, 1, 3}

NoOutcome == [kind |-> "none", code |-> 0, exc |-> ""]

Return(code) == [kind |-> "return", code |-> code, exc |-> ""]

Exit(code) == [kind |-> "exit", code |-> code, exc |-> ""]

Raised(e) == [kind |-> "raise", code |-> 0, exc |-> e]

NoFailure == [kind |-> "none", str |-> ""]

\* wait() has not returned yet
NoResult == [exit_code |-> 0, output |-> ""]

\* cli.py 87-146, monitor.py 22-33: the state in which a run begins
InitMonitor ==
    /\ mode \in {"namespace", "docker"}
    /\ command \in Commands
    /\ pc = IF mode = "namespace" THEN "start" ELSE "d_new"
    /\ actions = <<>>
    /\ log_file = <<>>
    /\ blocked_count = 0
    /\ process = "None"
    /\ child = "none"
    /\ child_status = 0
    /\ open_files = <<>>
    /\ pending = ""
    /\ outcome = NoOutcome
    /\ container = "None"
    /\ result = NoResult
    /\ screened = FALSE
    /\ spawned = 0
    /\ log_fault = FALSE
    /\ intr = "none"
    /\ failure = NoFailure
    /\ swallowed = FALSE
    /\ engine_fault = FALSE
    /\ calls = <<>>
    /\ handles = <<>>

InitRun ==
    /\ RegIdle
    /\ ExtIdle
    /\ InitMonitor

(***************************************************************************)
(* AgentMonitor.log_action: the entry is appended to self.actions, then    *)
(* written to the log file; the write succeeds (ok) or raises OSError.     *)
(***************************************************************************)
Entry(action_type, details, allowed) ==
    [action_type |-> action_type, details |-> details, allowed |-> allowed]

log_action(entry, ok) ==
    /\ actions' = Append(actions, entry)
    /\ log_file' = IF ok THEN Append(log_file, entry) ELSE log_file
    /\ log_fault' = (log_fault \/ ~ok)

\* an exception that leaves run(): nothing in the frame handles it
Escape(e) ==
    /\ pc' = "done"
    /\ outcome' = Raised(e)
    /\ pending' = ""

\* an exception raised inside the try block, caught by `except Exception`
Caught(e, kind) ==
    /\ pc' = "except_error"
    /\ pending' = e
    /\ failure' = [kind |-> kind, str |-> e]

\* monitor.py 71-75: the 'start' event, logged before the try block
LogStart ==
    /\ pc = "start"
    /\ \E ok \in BOOLEAN :
         /\ log_action(Entry("start", [command |-> command], TRUE), ok)
         /\ IF ok THEN pc' = "screen" /\ UNCHANGED <<outcome, pending>>
                  ELSE Escape("OSError")
    /\ UNCHANGED << mode, command, blocked_count, process, child, child_status,
                    open_files, container, result, screened, spawned, intr,
                    failure, swallowed, engine_fault, calls, handles >>
    /\ UNCHANGED << reg_vars, ext_vars >>

\* monitor.py 79: the first element of check_command's result is bound to should_block
ShouldBlock(c) == check_command(c).allowed

\* monitor.py 77-82: screening
Screen ==
    /\ pc = "screen"
    /\ screened' = TRUE
    /\ IF ShouldBlock(command)
         THEN blocked_count' = blocked_count + 1 /\ pc' = "blocked"
         ELSE blocked_count' = blocked_count /\ pc' = "launch"
    /\ UNCHANGED << mode, command, actions, log_file, process, child, child_status,
                    open_files, pending, outcome, container, result, spawned,
                    log_fault, intr, failure, swallowed, engine_fault, calls, handles >>
    /\ UNCHANGED << reg_vars, ext_vars >>

BlockedEntry(c) ==
    Entry("blocked",
          [command |-> c, reason |-> check_command(c).reason,
           patterns |-> check_command(c).matched_patterns],
          FALSE)

\* a 'complete' event that counts itself
CompleteEntry_counted(exit_code) ==
    Entry("complete",
          [exit_code |-> exit_code, total_actions |-> Len(actions) + 1,
           blocked_actions |-> blocked_count],
          TRUE)

CompleteEntry(exit_code) ==
    Entry("complete",
          [exit_code |-> exit_code, total_actions |-> Len(actions),
           blocked_actions |-> blocked_count],
          TRUE)

\* monitor.py 88-92: the 'blocked' event
LogBlocked ==
    /\ pc = "blocked"
    /\ \E ok \in BOOLEAN :
         /\ log_action(BlockedEntry(command), ok)
         /\ IF ok THEN pc' = "blocked_complete" /\ UNCHANGED <<outcome, pending>>
                  ELSE Escape("OSError")
    /\ UNCHANGED << mode, command, blocked_count, process, child, child_status,
                    open_files, container, result, screened, spawned, intr,
                    failure, swallowed, engine_fault, calls, handles >>
    /\ UNCHANGED << reg_vars, ext_vars >>

\* monitor.py 94-100: the 'complete' event of a blocked run, and return 1
BlockedComplete ==
    /\ pc = "blocked_complete"
    /\ \E ok \in BOOLEAN :
         /\ log_action(CompleteEntry(1), ok)
         /\ IF ok THEN pc' = "done" /\ outcome' = Return(1) /\ UNCHANGED pending
                  ELSE Escape("OSError")
    /\ UNCHANGED << mode, command, blocked_count, process, child, child_status,
                    open_files, container, result, screened, spawned, intr,
                    failure, swallowed, engine_fault, calls, handles >>
    /\ UNCHANGED << reg_vars, ext_vars >>

TryPcs == {"launch", "assign", "psutil", "inspect", "communicate", "complete",
           "return"}

HandlerPcs == {"except_interrupt", "except_error"}

\* a launch that runs the command without the namespace tool when the tool
\* cannot be started
Launch_fallback ==
    /\ pc = "launch"
    /\ child' = "running"
    /\ spawned' = spawned + 1
    /\ pc' = "assign"
    /\ \/ UNCHANGED failure
       \/ failure' = [kind |-> "launch", str |-> "FileNotFoundError"]
    /\ UNCHANGED << mode, command, actions, log_file, blocked_count, process,
                    child_status, open_files, pending, outcome, container, result,
                    screened, log_fault, intr, swallowed, engine_fault, calls, handles >>
    /\ UNCHANGED << reg_vars, ext_vars >>

\* monitor.py 106-115 / sandbox.py 93-99: Popen starts the child, or raises
Launch ==
    /\ pc = "launch"
    /\ \/ /\ child' = "running"
          /\ spawned' = spawned + 1
          /\ pc' = "assign"
          /\ UNCHANGED <<pending, failure>>
       \/ /\ Caught("FileNotFoundError", "launch")
          /\ UNCHANGED <<child, spawned>>
    /\ UNCHANGED << mode, command, actions, log_file, blocked_count, process,
                    child_status, open_files, outcome, container, result,
                    screened, log_fault, intr, swallowed, engine_fault, calls, handles >>
    /\ UNCHANGED << reg_vars, ext_vars >>

\* sandbox.py 101-103, monitor.py 107: the Popen object reaches self.process
Assign ==
    /\ pc = "assign"
    /\ process' = "Popen"
    /\ pc' = "psutil"
    /\ UNCHANGED << mode, command, actions, log_file, blocked_count, child,
                    child_status, open_files, pending, outcome, container, result,
                    screened, spawned, log_fault, intr, failure, swallowed, engine_fault, calls, handles >>
    /\ UNCHANGED << reg_vars, ext_vars >>

\* monitor.py 118-124, 134-135: psutil.Process(pid) raises NoSuchProcess when
\* the pid is gone (outside the inner try); open_files() returns the handles
\* or raises AccessDenied / NoSuchProcess, which the inner except swallows
Psutil ==
    /\ pc = "psutil"
    /\ \/ /\ child = "exited"
          /\ Caught("NoSuchProcess", "inspect")
          /\ UNCHANGED <<open_files, swallowed, handles>>
       \/ /\ swallowed' = TRUE
          /\ pc' = "communicate"
          /\ UNCHANGED <<open_files, pending, failure, handles>>
       \/ \E fs \in OpenFileLists :
            /\ open_files' = fs
            /\ handles' = fs
            /\ pc' = IF fs = <<>> THEN "communicate" ELSE "inspect"
            /\ UNCHANGED <<pending, failure, swallowed>>
    /\ UNCHANGED << mode, command, actions, log_file, blocked_count, process, child,
                    child_status, outcome, container, result, screened, spawned,
                    log_fault, intr, engine_fault, calls >>
    /\ UNCHANGED << reg_vars, ext_vars >>

\* monitor.py 53-62: check_policy counts a denial and returns `allowed`
check_policy(action_type, target) == ~should_block(action_type, target).block

FileAccessEntry(f) ==
    Entry("file_access", [path |-> f.path, mode |-> f.mode],
          check_policy("file_read", f.path))

\* a loop that stops inspecting at the first denied handle
Inspect_break ==
    /\ pc = "inspect"
    /\ LET f == Head(open_files) IN
        /\ blocked_count' = IF check_policy("file_read", f.path)
                               THEN blocked_count ELSE blocked_count + 1
        /\ \E ok \in BOOLEAN :
             /\ log_action(FileAccessEntry(f), ok)
             /\ IF ok
                  THEN /\ open_files' = Tail(open_files)
                       /\ pc' = IF Tail(open_files) = <<>>
                                     \/ ~check_policy("file_read", f.path)
                                  THEN "communicate" ELSE "inspect"
                       /\ UNCHANGED <<pending, failure>>
                  ELSE /\ Caught("OSError", "inspect")
                       /\ UNCHANGED open_files
    /\ UNCHANGED << mode, command, process, child, child_status, outcome, container,
                    result, screened, spawned, intr, swallowed, engine_fault, calls, handles >>
    /\ UNCHANGED << reg_vars, ext_vars >>

\* monitor.py 125-133: one iteration of the loop over the open files
Inspect ==
    /\ pc = "inspect"
    /\ LET f == Head(open_files) IN
        /\ blocked_count' = IF check_policy("file_read", f.path)
                               THEN blocked_count ELSE blocked_count + 1
        /\ \E ok \in BOOLEAN :
             /\ log_action(FileAccessEntry(f), ok)
             /\ IF ok
                  THEN /\ open_files' = Tail(open_files)
                       /\ pc' = IF Tail(open_files) = <<>> THEN "communicate"
                                                           ELSE "inspect"
                       /\ UNCHANGED <<pending, failure>>
                  ELSE /\ Caught("OSError", "inspect")
                       /\ UNCHANGED open_files
    /\ UNCHANGED << mode, command, process, child, child_status, outcome, container,
                    result, screened, spawned, intr, swallowed, engine_fault, calls, handles >>
    /\ UNCHANGED << reg_vars, ext_vars >>

\* the child ends by itself (the environment of run())
ChildExit ==
    /\ mode = "namespace"
    /\ pc # "done"
    /\ child = "running"
    /\ child' = "exited"
    /\ child_status' \in ExitCodes
    /\ UNCHANGED << mode, command, pc, actions, log_file, blocked_count, process,
                    open_files, pending, outcome, container, result, screened,
                    spawned, log_fault, intr, failure, swallowed, engine_fault, calls, handles >>
    /\ UNCHANGED << reg_vars, ext_vars >>

\* monitor.py 138: communicate() returns once the child has exited, or raises
Communicate ==
    /\ pc = "communicate"
    /\ \/ /\ child = "exited"
          /\ pc' = "complete"
          /\ UNCHANGED <<pending, failure>>
       \/ Caught("UnicodeDecodeError", "wait")
    /\ UNCHANGED << mode, command, actions, log_file, blocked_count, process, child,
                    child_status, open_files, outcome, container, result, screened,
                    spawned, log_fault, intr, swallowed, engine_fault, calls, handles >>
    /\ UNCHANGED << reg_vars, ext_vars >>

\* monitor.py 150-154: the 'complete' event
Complete ==
    /\ pc = "complete"
    /\ \E ok \in BOOLEAN :
         /\ log_action(CompleteEntry(child_status), ok)
         /\ IF ok THEN /\ pc' = "return"
                       /\ UNCHANGED <<pending, failure>>
                  ELSE Caught("OSError", "complete")
    /\ UNCHANGED << mode, command, blocked_count, process, child, child_status,
                    open_files, outcome, container, result, screened, spawned, intr,
                    swallowed, engine_fault, calls, handles >>
    /\ UNCHANGED << reg_vars, ext_vars >>

\* monitor.py 156-161: the summary is printed and the child's code returned,
\* still inside the try block
Finish ==
    /\ pc = "return"
    /\ pc' = "done"
    /\ outcome' = Return(child_status)
    /\ UNCHANGED << mode, command, actions, log_file, blocked_count, process, child,
                    child_status, open_files, pending, container, result, screened,
                    spawned, log_fault, intr, failure, swallowed, engine_fault, calls,
                    handles >>
    /\ UNCHANGED << reg_vars, ext_vars >>

\* Popen.terminate(): SIGTERM to a child that still runs
terminate(c) == IF c = "running" THEN "terminated" ELSE c

\* monitor.py 163-168: except KeyboardInterrupt
ExceptInterrupt ==
    /\ pc = "except_interrupt"
    /\ \E ok \in BOOLEAN :
         /\ log_action(Entry("interrupted", [reason |-> "user_keyboard"], TRUE), ok)
         /\ IF ok THEN /\ child' = IF process # "None" THEN terminate(child) ELSE child
                       /\ pc' = "done"
                       /\ outcome' = Return(130)
                       /\ pending' = ""
                  ELSE /\ Escape("OSError")
                       /\ UNCHANGED child
    /\ UNCHANGED << mode, command, blocked_count, process, child_status, open_files,
                    container, result, screened, spawned, intr, failure, swallowed, engine_fault, calls, handles >>
    /\ UNCHANGED << reg_vars, ext_vars >>

\* the handler forgetting allowed=False
ErrorEntry_allowed(e) == Entry("error", [error |-> e], TRUE)

ErrorEntry(e) == Entry("error", [error |-> e], FALSE)

\* monitor.py 170-173: except Exception
ExceptError ==
    /\ pc = "except_error"
    /\ \E ok \in BOOLEAN :
         /\ log_action(ErrorEntry(pending), ok)
         /\ IF ok THEN pc' = "done" /\ outcome' = Return(1) /\ pending' = ""
                  ELSE Escape("OSError")
    /\ UNCHANGED << mode, command, blocked_count, process, child, child_status,
                    open_files, container, result, screened, spawned, intr, failure,
                    swallowed, engine_fault, calls, handles >>
    /\ UNCHANGED << reg_vars, ext_vars >>

\* KeyboardInterrupt while run() executes: caught inside the try block,
\* raised to the caller anywhere else (before the try, or inside a handler)
Interrupt ==
    /\ pc \in {"start", "screen", "blocked", "blocked_complete"} \cup TryPcs
             \cup HandlerPcs
    /\ intr' = IF spawned > 0 THEN "post" ELSE "pre"
    /\ IF pc \in TryPcs
         THEN /\ pc' = "except_interrupt"
              /\ pending' = "KeyboardInterrupt"
              /\ UNCHANGED outcome
         ELSE Escape("KeyboardInterrupt")
    /\ UNCHANGED << mode, command, actions, log_file, blocked_count, process, child,
                    child_status, open_files, container, result, screened, spawned,
                    log_fault, failure, swallowed, engine_fault, calls, handles >>
    /\ UNCHANGED << reg_vars, ext_vars >>

(***************************************************************************)
(* Docker mode: cli.py 87-139 with DockerSandbox as a context manager.     *)
(***************************************************************************)
WithBodyPcs == {"d_create", "d_start", "d_wait", "d_exit"}

\* cli.py 93-99, 130-139; docker_sandbox.py 45-51: DockerSandbox(...); an
\* unreachable engine raises RuntimeError, which ends the command with sys.exit(1)
DockerNew ==
    /\ pc = "d_new"
    /\ \/ pc' = "d_create" /\ UNCHANGED <<outcome, failure>>
       \/ /\ pc' = "done"
          /\ outcome' = Exit(1)
          /\ failure' = [kind |-> "engine", str |-> "RuntimeError"]
    /\ UNCHANGED << mode, command, actions, log_file, blocked_count, process, child,
                    child_status, open_files, pending, container, result, screened,
                    spawned, log_fault, intr, swallowed, engine_fault, calls, handles >>
    /\ UNCHANGED << reg_vars, ext_vars >>

\* cli.py 101; docker_sandbox.py 119-143: create_container, or APIError
DockerCreate ==
    /\ pc = "d_create"
    /\ \/ container' = "created" /\ pc' = "d_start" /\ UNCHANGED pending
       \/ pending' = "APIError" /\ pc' = "d_stop" /\ UNCHANGED container
    /\ UNCHANGED << mode, command, actions, log_file, blocked_count, process, child,
                    child_status, open_files, outcome, result, screened, spawned,
                    log_fault, intr, failure, swallowed, engine_fault, calls, handles >>
    /\ UNCHANGED << reg_vars, ext_vars >>

\* cli.py 102; docker_sandbox.py 145-152: start, or APIError
DockerStart ==
    /\ pc = "d_start"
    /\ \/ container' = "running" /\ pc' = "d_wait" /\ UNCHANGED pending
       \/ pending' = "APIError" /\ pc' = "d_stop" /\ UNCHANGED container
    /\ UNCHANGED << mode, command, actions, log_file, blocked_count, process, child,
                    child_status, open_files, outcome, result, screened, spawned,
                    log_fault, intr, failure, swallowed, engine_fault, calls, handles >>
    /\ UNCHANGED << reg_vars, ext_vars >>

\* the command inside the container ends (the environment of the CLI)
ContainerExit ==
    /\ mode = "docker"
    /\ pc # "done"
    /\ container = "running"
    /\ container' = "exited"
    /\ child_status' \in ExitCodes
    /\ UNCHANGED << mode, command, pc, actions, log_file, blocked_count, process,
                    child, open_files, pending, outcome, result, screened, spawned,
                    log_fault, intr, failure, swallowed, engine_fault, calls, handles >>
    /\ UNCHANGED << reg_vars, ext_vars >>

\* what container.wait / container.logs raise: the timeout of the wait, an
\* engine error, output that is not UTF-8
WaitErrors == {"ReadTimeout", "APIError", "UnicodeDecodeError"}

\* docker_sandbox.py 176-181: the handler of wait() dropping the exception
\* and returning nothing
WaitFailed_none(err) == NoResult

\* docker_sandbox.py 176-181: except Exception in wait()
WaitFailed(err) == [exit_code |-> -1, output |-> err]

\* cli.py 105; docker_sandbox.py 154-187: wait returns the status code and
\* the logs of a container that has exited; a wait that times out on a
\* running container, an engine error, or logs that cannot be decoded make
\* it return exit_code -1 with the error text
DockerWait ==
    /\ pc = "d_wait"
    /\ \/ /\ container = "exited"
          /\ result' = [exit_code |-> child_status, output |-> "logs"]
       \/ /\ container = "running"
          /\ result' = WaitFailed("ReadTimeout")
       \/ result' = WaitFailed("APIError")
       \/ /\ container = "exited"
          /\ result' = WaitFailed("UnicodeDecodeError")
    /\ pc' = "d_exit"
    /\ UNCHANGED << mode, command, actions, log_file, blocked_count, process, child,
                    child_status, open_files, pending, outcome, container, screened,
                    spawned, log_fault, intr, failure, swallowed, engine_fault, calls, handles >>
    /\ UNCHANGED << reg_vars, ext_vars >>

\* cli.py 107-129: output, stats (get_stats and the telemetry call never
\* raise), then sys.exit(result['exit_code']) inside the with block
DockerSysExit ==
    /\ pc = "d_exit"
    /\ pending' = "SystemExit"
    /\ pc' = "d_stop"
    /\ UNCHANGED << mode, command, actions, log_file, blocked_count, process, child,
                    child_status, open_files, outcome, container, result, screened,
                    spawned, log_fault, intr, failure, swallowed, engine_fault, calls, handles >>
    /\ UNCHANGED << reg_vars, ext_vars >>

\* docker_sandbox.py 189-197: stop(); an engine error is printed and dropped
stop(c, ok) == IF c = "running" /\ ok THEN "stopped" ELSE c

\* a removal without force: the engine refuses to remove a running container
cleanup_noforce(c, ok) == IF c \notin {"None", "running"} /\ ok THEN "removed" ELSE c

\* docker_sandbox.py 199-207: cleanup(); remove(force=True), errors dropped
cleanup(c, ok) == IF c # "None" /\ ok THEN "removed" ELSE c

\* what the engine answers to a stop or remove call: no call is made without
\* a container object, a removed container is not found
Answer(c, ok) ==
    IF c = "None" THEN "skipped"
    ELSE IF c = "removed" \/ ~ok THEN "error"
    ELSE "ok"

\* docker_sandbox.py 196-197, 206-207: `except Exception` prints the error;
\* the method returns normally whatever the engine answered
Swallowed(answer) == TRUE

\* one stop() or cleanup() call: the state it found, the engine's answer,
\* the state it left, and whether it returned normally
Call(name, c, ok, after) ==
    [call |-> name, before |-> c, answer |-> Answer(c, ok), after |-> after,
     returned |-> Swallowed(Answer(c, ok))]

\* docker_sandbox.py 244-246: __exit__ calls stop()
DockerStop ==
    /\ pc = "d_stop"
    /\ \E ok \in BOOLEAN :
         /\ container' = stop(container, ok)
         /\ engine_fault' = (engine_fault \/ (container # "None" /\ ~ok))
         /\ calls' = Append(calls, Call("stop", container, ok, stop(container, ok)))
    /\ pc' = "d_cleanup"
    /\ UNCHANGED << mode, command, actions, log_file, blocked_count, process, child,
                    child_status, open_files, pending, outcome, result, screened,
                    spawned, log_fault, intr, failure, swallowed, handles >>
    /\ UNCHANGED << reg_vars, ext_vars >>

\* docker_sandbox.py 247, cli.py 129-139: __exit__ calls cleanup(); then the
\* exception in flight goes on: SystemExit ends the process with the code,
\* an Exception is reported and becomes sys.exit(1), an interrupt escapes
DockerCleanup ==
    /\ pc = "d_cleanup"
    /\ \E ok \in BOOLEAN :
         /\ container' = cleanup(container, ok)
         /\ engine_fault' = (engine_fault \/ (container # "None" /\ ~ok))
         /\ calls' = Append(calls, Call("cleanup", container, ok, cleanup(container, ok)))
    /\ pc' = "done"
    /\ outcome' = CASE pending = "SystemExit" -> Exit(result.exit_code)
                    [] pending = "KeyboardInterrupt" -> Raised(pending)
                    [] OTHER -> Exit(1)
    /\ pending' = ""
    /\ UNCHANGED << mode, command, actions, log_file, blocked_count, process, child,
                    child_status, open_files, result, screened, spawned, log_fault,
                    intr, failure, swallowed, handles >>
    /\ UNCHANGED << reg_vars, ext_vars >>

\* KeyboardInterrupt in Docker mode: inside the with block it runs __exit__
\* first; while the sandbox is constructed or inside __exit__ it escapes
DockerInterrupt ==
    /\ pc \in WithBodyPcs \cup {"d_new", "d_stop", "d_cleanup"}
    /\ intr' = IF container # "None" THEN "post" ELSE "pre"
    /\ IF pc \in WithBodyPcs
         THEN /\ pc' = "d_stop"
              /\ pending' = "KeyboardInterrupt"
              /\ UNCHANGED outcome
         ELSE Escape("KeyboardInterrupt")
    /\ UNCHANGED << mode, command, actions, log_file, blocked_count, process, child,
                    child_status, open_files, container, result, screened, spawned,
                    log_fault, failure, swallowed, engine_fault, calls, handles >>
    /\ UNCHANGED << reg_vars, ext_vars >>

NextRun ==
    \/ LogStart \/ Screen \/ LogBlocked \/ BlockedComplete
    \/ Launch \/ Assign \/ Psutil \/ Inspect \/ ChildExit \/ Communicate \/ Complete
    \/ Finish
    \/ ExceptInterrupt \/ ExceptError \/ Interrupt
    \/ DockerNew \/ DockerCreate \/ DockerStart \/ ContainerExit \/ DockerWait
    \/ DockerSysExit \/ DockerStop \/ DockerCleanup \/ DockerInterrupt

(***************************************************************************)
(* AgentSession (monitor.py 175-214).                                      *)
(***************************************************************************)
\* most processes calling AgentSession at the same time
NumProcs == 2

\* most entries the single caller lets the registry grow to
MaxSessions == 3

Procs == 1..NumProcs

\* session ids: process p runs session p; session 0 belongs to nobody here
SessionIds == 0..NumProcs

END == -1

\* json.dump(sessions, f, indent=2): the text of the array
dump(list) == list \o <<END>>

\* json.load can parse the text: one complete array and nothing after it
Parses(data) ==
    /\ Len(data) >= 1
    /\ data[Len(data)] = END
    /\ \A i \in 1..(Len(data) - 1) : data[i] # END

\* json.load(f) of a text that parses
load(data) == SubSeq(data, 1, Len(data) - 1)

\* the file after `text` is written at offset 0 of a file holding `data`:
\* what lies beyond the written bytes stays
WriteAt0(data, text) == text \o SubSeq(data, Len(text) + 1, Len(data))

Keep(list, session_id) ==
    LET F[i \in 0..Len(list)] ==
          IF i = 0 THEN <<>>
          ELSE IF list[i] # session_id THEN Append(F[i - 1], list[i]) ELSE F[i - 1]
    IN F[Len(list)]

Occurrences(list, session_id) ==
    Cardinality({i \in DOMAIN list : list[i] = session_id})

\* the ascending sequence of a set of session ids
Ascending(S) ==
    LET F[i \in 0..(NumProcs + 1)] ==
          IF i = 0 THEN <<>>
          ELSE IF (i - 1) \in S THEN Append(F[i - 1], i - 1) ELSE F[i - 1]
    IN F[NumProcs + 1]

\* monitor.py 178-187: list_active(); "raise" stands for JSONDecodeError
list_active ==
    IF ~file_exists THEN [raise |-> FALSE, value |-> <<>>]
    ELSE IF Parses(file_data) THEN [raise |-> FALSE, value |-> load(file_data)]
    ELSE [raise |-> TRUE, value |-> <<>>]

\* monitor.py 194-200: sessions.append({...})
appended(list, session_id) == Append(list, session_id)

\* monitor.py 210-211: the list without the entries of session_id
removed(list, session_id) == Keep(list, session_id)

\* no run is under way
RunIdle ==
    /\ mode = "namespace"
    /\ command = CmdEcho
    /\ pc = "done"
    /\ actions = <<>>
    /\ log_file = <<>>
    /\ blocked_count = 0
    /\ process = "None"
    /\ child = "none"
    /\ child_status = 0
    /\ open_files = <<>>
    /\ pending = ""
    /\ outcome = NoOutcome
    /\ container = "None"
    /\ result = NoResult
    /\ screened = FALSE
    /\ spawned = 0
    /\ log_fault = FALSE
    /\ intr = "none"
    /\ failure = NoFailure
    /\ swallowed = FALSE
    /\ engine_fault = FALSE
    /\ calls = <<>>
    /\ handles = <<>>

(***************************************************************************)
(* Processes racing on the file: each makes one call for its own session.  *)
(***************************************************************************)
InitRegistry ==
    /\ RunIdle
    /\ ExtIdle
    /\ \E S \in SUBSET SessionIds : registry0 = Ascending(S)
    /\ file_exists \in (IF registry0 = <<>> THEN BOOLEAN ELSE {TRUE})
    /\ file_data = IF file_exists THEN dump(registry0) ELSE <<>>
    /\ op \in [Procs -> {"add", "remove"}]
    /\ \A p \in Procs : op[p] = "add" => Occurrences(registry0, p) = 0
    /\ rpc = [p \in Procs |-> "list"]
    /\ sessions = [p \in Procs |-> <<>>]
    /\ phase = "idle"
    /\ last_call = [op |-> "none", session_id |-> 0]
    /\ before = <<>>
    /\ listed = <<>>

\* monitor.py 194-200 / 210-211: sessions = list_active(), then the change
ReadSessions(p) ==
    /\ rpc[p] = "list"
    /\ IF list_active.raise
         THEN /\ rpc' = [rpc EXCEPT ![p] = "failed"]
              /\ UNCHANGED sessions
         ELSE /\ rpc' = [rpc EXCEPT ![p] = "open"]
              /\ sessions' = [sessions EXCEPT ![p] =
                                IF op[p] = "add" THEN appended(list_active.value, p)
                                                 ELSE removed(list_active.value, p)]
    /\ UNCHANGED << file_exists, file_data, registry0, op, phase, last_call,
                    before, listed >>
    /\ UNCHANGED << run_vars, ext_vars >>

\* monitor.py 202 / 213: open(sessions_file, 'w') creates or truncates the file
OpenForWrite(p) ==
    /\ rpc[p] = "open"
    /\ file_exists' = TRUE
    /\ file_data' = <<>>
    /\ rpc' = [rpc EXCEPT ![p] = "dump"]
    /\ UNCHANGED << registry0, op, sessions, phase, last_call, before, listed >>
    /\ UNCHANGED << run_vars, ext_vars >>

\* monitor.py 203 / 214: json.dump and the close that flushes it, written
\* from the start of the file
DumpSessions(p) ==
    /\ rpc[p] = "dump"
    /\ file_data' = WriteAt0(file_data, dump(sessions[p]))
    /\ rpc' = [rpc EXCEPT ![p] = "done"]
    /\ UNCHANGED << file_exists, registry0, op, sessions, phase, last_call,
                    before, listed >>
    /\ UNCHANGED << run_vars, ext_vars >>

NextRegistry ==
    \E p \in Procs : ReadSessions(p) \/ OpenForWrite(p) \/ DumpSessions(p)

(***************************************************************************)
(* One caller alone: whole calls, one after the other.                     *)
(***************************************************************************)
InitSession ==
    /\ RunIdle
    /\ ExtIdle
    /\ registry0 = <<>>
    /\ file_exists \in BOOLEAN
    /\ file_data = IF file_exists THEN dump(<<>>) ELSE <<>>
    /\ op = <<>>
    /\ rpc = <<>>
    /\ sessions = <<>>
    /\ phase = "idle"
    /\ last_call = [op |-> "none", session_id |-> 0]
    /\ before = <<>>
    /\ listed = <<>>

\* monitor.py 189-203: add_session(session_id, command, pid)
add_session(session_id) ==
    /\ phase \in {"idle", "listed"}
    /\ ~list_active.raise
    /\ Len(list_active.value) < MaxSessions
    /\ file_exists' = TRUE
    /\ file_data' = WriteAt0(<<>>, dump(appended(list_active.value, session_id)))
    /\ before' = list_active.value
    /\ last_call' = [op |-> "add", session_id |-> session_id]
    /\ phase' = "called"
    /\ UNCHANGED << registry0, op, rpc, sessions, listed >>
    /\ UNCHANGED << run_vars, ext_vars >>

\* monitor.py 205-214: remove_session(session_id)
remove_session(session_id) ==
    /\ phase \in {"idle", "listed"}
    /\ ~list_active.raise
    /\ file_exists' = TRUE
    /\ file_data' = WriteAt0(<<>>, dump(removed(list_active.value, session_id)))
    /\ before' = list_active.value
    /\ last_call' = [op |-> "remove", session_id |-> session_id]
    /\ phase' = "called"
    /\ UNCHANGED << registry0, op, rpc, sessions, listed >>
    /\ UNCHANGED << run_vars, ext_vars >>

\* monitor.py 178-187: list_active() right after the call
ListActive ==
    /\ phase = "called"
    /\ ~list_active.raise
    /\ listed' = list_active.value
    /\ phase' = "listed"
    /\ UNCHANGED << file_exists, file_data, registry0, op, rpc, sessions,
                    last_call, before >>
    /\ UNCHANGED << run_vars, ext_vars >>

NextSession ==
    \/ \E session_id \in SessionIds : add_session(session_id)
    \/ \E session_id \in SessionIds : remove_session(session_id)
    \/ ListActive

(***************************************************************************)
(* `sudodog run <command>` in namespace mode, started by several users or  *)
(* shells side by side (cli.py 140-182).  monitor.run() itself is the      *)
(* state machine above; here it is the call that begins, writes to the     *)
(* session's log file and ends by returning or by raising.                 *)
(***************************************************************************)
\* ticks of the clock in one second
TicksPerSecond == 2

\* the clock stops after this many ticks
MaxTicks == 3

\* monitor.py 25: datetime.now().strftime('%Y%m%d_%H%M%S') drops what is
\* finer than the second
strftime(t) == t \div TicksPerSecond

Seconds == { strftime(t) : t \in 0..MaxTicks }

\* monitor.py 26: Path.home() / '.sudodog' / 'logs' / f'{session_id}.jsonl'
LogFileOf(session_id) == << "logs", session_id >>

\* blocker.py 165: Path.home() / '.sudodog' / 'backups' / session_id
BackupDirOf(session_id) == << "backups", session_id >>

reg_rest == << registry0, op, rpc, phase, last_call, before, listed >>

InitCli ==
    /\ RunIdle
    /\ RbIdle
    /\ ChkIdle
    /\ DmnIdle
    /\ registry0 = <<>>
    /\ file_exists = TRUE
    /\ file_data = dump(<<>>)
    /\ op = <<>>
    /\ rpc = <<>>
    /\ sessions = [p \in Procs |-> <<>>]
    /\ phase = "idle"
    /\ last_call = [op |-> "none", session_id |-> 0]
    /\ before = <<>>
    /\ listed = <<>>
    /\ now = 0
    /\ cpc = [p \in Procs |-> "new"]
    /\ monitor = [p \in Procs |-> [session_id |-> 0, log_file |-> LogFileOf(0)]]
    /\ backup_dir = [p \in Procs |-> BackupDirOf(0)]
    /\ logs = [f \in { LogFileOf(s) : s \in Seconds } |-> <<>>]
    /\ backups = {}
    /\ began = [p \in Procs |-> FALSE]
    /\ ended = [p \in Procs |-> "none"]
    /\ cli_intr = FALSE

\* the clock advances
Tick ==
    /\ now < MaxTicks
    /\ now' = now + 1
    /\ UNCHANGED << cpc, monitor, backup_dir, logs, backups, began, ended, cli_intr >>
    /\ UNCHANGED << file_exists, file_data, sessions, reg_rest, run_vars, rb_vars, chk_vars, dmn_vars >>

\* cli.py 147, monitor.py 22-33, blocker.py 163-167: AgentMonitor(cmd_string)
\* with no session_id; FileRollback makes the backup directory (exist_ok)
CliNew(p) ==
    /\ cpc[p] = "new"
    /\ monitor' = [monitor EXCEPT ![p] = [session_id |-> strftime(now),
                                          log_file |-> LogFileOf(strftime(now))]]
    /\ backup_dir' = [backup_dir EXCEPT ![p] = BackupDirOf(strftime(now))]
    /\ backups' = backups \cup { BackupDirOf(strftime(now)) }
    /\ cpc' = [cpc EXCEPT ![p] = "add_list"]
    /\ UNCHANGED << now, logs, began, ended, cli_intr >>
    /\ UNCHANGED << file_exists, file_data, sessions, reg_rest, run_vars, rb_vars, chk_vars, dmn_vars >>

\* cli.py 150 / 180, monitor.py 194-200 / 210-211: sessions = list_active()
\* and the change of the list; a JSONDecodeError leaves cli.run
CliList(p) ==
    /\ cpc[p] \in {"add_list", "rm_list"}
    /\ IF list_active.raise
         THEN /\ cpc' = [cpc EXCEPT ![p] = "exit"]
              /\ UNCHANGED sessions
         ELSE /\ cpc' = [cpc EXCEPT ![p] = IF cpc[p] = "add_list" THEN "add_open"
                                                                  ELSE "rm_open"]
              /\ sessions' = [sessions EXCEPT ![p] =
                   IF cpc[p] = "add_list"
                     THEN appended(list_active.value, monitor[p].session_id)
                     ELSE removed(list_active.value, monitor[p].session_id)]
    /\ UNCHANGED << now, monitor, backup_dir, logs, backups, began, ended, cli_intr >>
    /\ UNCHANGED << file_exists, file_data, reg_rest, run_vars, rb_vars, chk_vars, dmn_vars >>

\* monitor.py 202 / 213: open(sessions_file, 'w')
CliOpen(p) ==
    /\ cpc[p] \in {"add_open", "rm_open"}
    /\ file_exists' = TRUE
    /\ file_data' = <<>>
    /\ cpc' = [cpc EXCEPT ![p] = IF cpc[p] = "add_open" THEN "add_dump" ELSE "rm_dump"]
    /\ UNCHANGED << now, monitor, backup_dir, logs, backups, began, ended, cli_intr >>
    /\ UNCHANGED << sessions, reg_rest, run_vars, rb_vars, chk_vars, dmn_vars >>

\* monitor.py 203 / 214: json.dump and the close; then cli.py 152 (after
\* add_session) or the end of the finally clause (after remove_session)
CliDump(p) ==
    /\ cpc[p] \in {"add_dump", "rm_dump"}
    /\ file_data' = WriteAt0(file_data, dump(sessions[p]))
    /\ cpc' = [cpc EXCEPT ![p] = IF cpc[p] = "add_dump" THEN "try" ELSE "exit"]
    /\ UNCHANGED << now, monitor, backup_dir, logs, backups, began, ended, cli_intr >>
    /\ UNCHANGED << file_exists, sessions, reg_rest, run_vars, rb_vars, chk_vars, dmn_vars >>

\* cli.py 152-153, monitor.py 70-75: the try block is entered, monitor.run()
\* begins and logs its 'start' event
CliRun(p) ==
    /\ cpc[p] = "try"
    /\ began' = [began EXCEPT ![p] = TRUE]
    /\ logs' = [logs EXCEPT ![monitor[p].log_file] = Append(@, p)]
    /\ cpc' = [cpc EXCEPT ![p] = "run"]
    /\ UNCHANGED << now, monitor, backup_dir, backups, ended, cli_intr >>
    /\ UNCHANGED << file_exists, file_data, sessions, reg_rest, run_vars, rb_vars, chk_vars, dmn_vars >>

\* cli.py 153-180: monitor.run() returns its exit code, or an exception or
\* interrupt escapes it; either way control reaches the finally clause
CliRunEnd(p) ==
    /\ cpc[p] = "run"
    /\ \E how \in {"return", "raise"} : ended' = [ended EXCEPT ![p] = how]
    /\ cpc' = [cpc EXCEPT ![p] = "rm_list"]
    /\ UNCHANGED << now, monitor, backup_dir, logs, backups, began, cli_intr >>
    /\ UNCHANGED << file_exists, file_data, sessions, reg_rest, run_vars, rb_vars, chk_vars, dmn_vars >>

\* KeyboardInterrupt in cli.run outside monitor.run(): during add_session,
\* between add_session and the try statement, or inside the finally clause;
\* a file open for writing is closed as it is
CliInterrupt(p) ==
    /\ cpc[p] \in {"add_list", "add_open", "add_dump", "try",
                   "rm_list", "rm_open", "rm_dump"}
    /\ cpc' = [cpc EXCEPT ![p] = "exit"]
    /\ cli_intr' = TRUE
    /\ UNCHANGED << now, monitor, backup_dir, logs, backups, began, ended >>
    /\ UNCHANGED << file_exists, file_data, sessions, reg_rest, run_vars, rb_vars, chk_vars, dmn_vars >>

NextCli ==
    \/ Tick
    \/ \E p \in Procs : CliNew(p)
    \/ \E p \in Procs : CliList(p)
    \/ \E p \in Procs : CliOpen(p)
    \/ \E p \in Procs : CliDump(p)
    \/ \E p \in Procs : CliRun(p)
    \/ \E p \in Procs : CliRunEnd(p)
    \/ \E p \in Procs : CliInterrupt(p)

(***************************************************************************)
(* FileRollback (blocker.py 160-258): backup_file before a file is         *)
(* changed, rollback afterwards.  The agent changes files in between, and  *)
(* a backup can get lost from the backup directory.                        *)
(***************************************************************************)
\* most operations one FileRollback records
MaxOps == 3

\* most backups that get lost
MaxLost == 1

\* /w/a.txt
P_A == [dir |-> "w", stem |-> <<"a">>, suffix |-> ".txt"]

\* /v/a.txt: another file with the basename of P_A
P_B == [dir |-> "v", stem |-> <<"a">>, suffix |-> ".txt"]

\* /w/a_1.txt: its basename is the first suffixed name of a.txt
P_A1 == [dir |-> "w", stem |-> <<"a", "1">>, suffix |-> ".txt"]

Paths == {P_A, P_B, P_A1}

\* op['backup'] of a 'create' operation (None)
NoBackup == [stem |-> <<>>, suffix |-> ""]

\* f"{counter}"
Str(counter) == <<"1", "2", "3", "4", "5", "6", "7", "8", "9">>[counter]

\* blocker.py 189: source.name
Name(path) == [stem |-> path.stem, suffix |-> path.suffix]

\* blocker.py 194: f"{source.stem}_{counter}{source.suffix}"
Suffixed(path, counter) ==
    [stem |-> Append(path.stem, Str(counter)), suffix |-> path.suffix]

\* blocker.py 192-195: the while loop, from `counter` on
RECURSIVE NextFree(_, _, _)
NextFree(path, counter, dir) ==
    IF Suffixed(path, counter) \in DOMAIN dir
      THEN NextFree(path, counter + 1, dir)
      ELSE Suffixed(path, counter)

\* the basename taken as it is, whatever the backup directory holds
BackupPath_plain(path, dir) == Name(path)

\* blocker.py 189-195: the backup path chosen for `path`
BackupPath(path, dir) ==
    IF Name(path) \in DOMAIN dir THEN NextFree(path, 1, dir) ELSE Name(path)

\* blocker.py 228: the 0-based index where self.operations[-steps:] starts
SliceStart(n, steps) ==
    IF steps > 0 THEN (IF n - steps > 0 THEN n - steps ELSE 0)
    ELSE (IF 0 - steps < n THEN 0 - steps ELSE n)

\* a loop body that counts a 'modify' operation without copying its backup
RollbackOne_nocopy(ops, i, dir, st) ==
    IF ops[i].type = "modify" /\ ops[i].backup \in DOMAIN dir
      THEN [st EXCEPT !.rolled_back = @ + 1, !.processed = Append(@, i)]
      ELSE [st EXCEPT !.processed = Append(@, i)]

\* a loop body that unlinks without asking path.exists() first, so that a
\* file already gone is reported as an error
RollbackOne_unlink(ops, i, dir, st) ==
    IF ops[i].type = "create"
      THEN IF st.files[ops[i].path] # "absent"
             THEN [st EXCEPT !.files[ops[i].path] = "absent",
                             !.rolled_back = @ + 1,
                             !.processed = Append(@, i)]
             ELSE [st EXCEPT !.errors = Append(@, ops[i].path),
                             !.processed = Append(@, i)]
    ELSE IF ops[i].backup \in DOMAIN dir
      THEN [st EXCEPT !.files[ops[i].path] = dir[ops[i].backup],
                      !.rolled_back = @ + 1,
                      !.processed = Append(@, i)]
      ELSE [st EXCEPT !.errors = Append(@, ops[i].path),
                      !.processed = Append(@, i)]

\* blocker.py 233-248: the loop body for one operation
RollbackOne(ops, i, dir, st) ==
    IF ops[i].type = "create"
      THEN IF st.files[ops[i].path] # "absent"
             THEN [st EXCEPT !.files[ops[i].path] = "absent",
                             !.rolled_back = @ + 1,
                             !.processed = Append(@, i)]
             ELSE [st EXCEPT !.processed = Append(@, i)]
    ELSE IF ops[i].backup = NoBackup
      THEN [st EXCEPT !.processed = Append(@, i)]
    ELSE IF ops[i].backup \in DOMAIN dir
      THEN [st EXCEPT !.files[ops[i].path] = dir[ops[i].backup],
                      !.rolled_back = @ + 1,
                      !.processed = Append(@, i)]
      ELSE [st EXCEPT !.errors = Append(@, ops[i].path),
                      !.processed = Append(@, i)]

\* a loop that gives up at the first error
RECURSIVE Unwind_abort(_, _, _, _, _)
Unwind_abort(ops, i, lo, dir, st) ==
    IF i < lo \/ st.errors # <<>> THEN st
    ELSE Unwind_abort(ops, i - 1, lo, dir, RollbackOne(ops, i, dir, st))

\* the selected operations processed oldest first
RECURSIVE Unwind_forward(_, _, _, _, _)
Unwind_forward(ops, i, lo, dir, st) ==
    IF i < lo THEN st
    ELSE RollbackOne(ops, i, dir, Unwind_forward(ops, i - 1, lo, dir, st))

\* blocker.py 232: for op in reversed(operations_to_rollback), from
\* operation i down to operation lo
RECURSIVE Unwind(_, _, _, _, _)
Unwind(ops, i, lo, dir, st) ==
    IF i < lo THEN st
    ELSE Unwind(ops, i - 1, lo, dir, RollbackOne(ops, i, dir, st))

\* blocker.py 213-250: rollback(steps) on the given state
rollback(ops, steps, fs, dir) ==
    Unwind(ops, Len(ops), SliceStart(Len(ops), steps) + 1, dir,
           [files |-> fs, operations |-> ops, rolled_back |-> 0, errors |-> <<>>,
            processed |-> <<>>])

InitRollback ==
    /\ RunIdle
    /\ RegIdle
    /\ CliIdle
    /\ ChkIdle
    /\ DmnIdle
    /\ files \in [Paths -> {"absent", "c0"}]
    /\ backup_files = <<>>
    /\ operations = <<>>
    /\ captured = <<>>
    /\ last = NoCall
    /\ dir_exists = TRUE

\* a backup_file that records the operation although the copy failed
BackupFile_record(path, ok) ==
    /\ Len(operations) < MaxOps
    /\ operations' = Append(operations,
           [type |-> (IF files[path] = "absent" THEN "create" ELSE "modify"),
            path |-> path,
            backup |-> (IF files[path] = "absent" THEN NoBackup
                        ELSE BackupPath(path, backup_files))])
    /\ captured' = Append(captured, files[path])
    /\ backup_files' =
         IF files[path] # "absent" /\ ok /\ dir_exists
           THEN (BackupPath(path, backup_files) :> files[path]) @@ backup_files
           ELSE backup_files
    /\ last' = [NoCall EXCEPT !.call = "backup_file", !.path = path,
                              !.ret = (files[path] = "absent" \/ (ok /\ dir_exists)),
                              !.operations_before =
                                  IF files[path] = "absent" \/ (ok /\ dir_exists)
                                    THEN <<>> ELSE operations]
    /\ UNCHANGED files
    /\ UNCHANGED << dir_exists, run_vars, reg_vars, cli_vars, chk_vars, dmn_vars >>

\* blocker.py 169-211: backup_file(file_path); shutil.copy2 succeeds when the
\* backup directory exists and nothing else fails (ok)
BackupFile(path, ok) ==
    /\ Len(operations) < MaxOps
    /\ IF files[path] = "absent"
         THEN /\ operations' = Append(operations,
                     [type |-> "create", path |-> path, backup |-> NoBackup])
              /\ captured' = Append(captured, "absent")
              /\ UNCHANGED backup_files
              /\ last' = [NoCall EXCEPT !.call = "backup_file", !.path = path,
                                        !.ret = TRUE]
         ELSE IF ok /\ dir_exists
           THEN /\ backup_files' =
                     (BackupPath(path, backup_files) :> files[path]) @@ backup_files
                /\ operations' = Append(operations,
                     [type |-> "modify", path |-> path,
                      backup |-> BackupPath(path, backup_files)])
                /\ captured' = Append(captured, files[path])
                /\ last' = [NoCall EXCEPT !.call = "backup_file", !.path = path,
                                          !.ret = TRUE]
           ELSE /\ UNCHANGED << backup_files, operations, captured >>
                /\ last' = [NoCall EXCEPT !.call = "backup_file", !.path = path,
                                          !.ret = FALSE,
                                          !.operations_before = operations]
    /\ UNCHANGED files
    /\ UNCHANGED << dir_exists, run_vars, reg_vars, cli_vars, chk_vars, dmn_vars >>

\* the content an agent's write leaves in a file that held `content`:
\* a write changes the file
Written(content) == IF content = "c0" THEN "c1" ELSE "c0"

\* the agent writes the file at path
WriteFile(path) ==
    /\ files' = [files EXCEPT ![path] = Written(files[path])]
    /\ last' = NoCall
    /\ UNCHANGED << backup_files, operations, captured >>
    /\ UNCHANGED << dir_exists, run_vars, reg_vars, cli_vars, chk_vars, dmn_vars >>

\* the agent removes the file at path
RemoveFile(path) ==
    /\ files[path] # "absent"
    /\ files' = [files EXCEPT ![path] = "absent"]
    /\ last' = NoCall
    /\ UNCHANGED << backup_files, operations, captured >>
    /\ UNCHANGED << dir_exists, run_vars, reg_vars, cli_vars, chk_vars, dmn_vars >>

\* the operations whose backup is no longer in the backup directory
Lost ==
    {i \in DOMAIN operations : /\ operations[i].type = "modify"
                               /\ operations[i].backup \notin DOMAIN backup_files}

\* a backup disappears from the backup directory
LoseBackup(name) ==
    /\ name \in DOMAIN backup_files
    /\ Cardinality(Lost) < MaxLost
    /\ backup_files' = [b \in (DOMAIN backup_files) \ {name} |-> backup_files[b]]
    /\ last' = NoCall
    /\ UNCHANGED << files, operations, captured >>
    /\ UNCHANGED << dir_exists, run_vars, reg_vars, cli_vars, chk_vars, dmn_vars >>

\* blocker.py 213-250: rollback(steps); given = FALSE is rollback() with
\* steps left out, which takes len(self.operations).  `again` tells that the
\* call before it on this FileRollback was the same call.
Rollback(given, steps) ==
    /\ ~given => steps = Len(operations)
    /\ steps <= Len(operations)
    /\ LET r == rollback(operations, steps, files, backup_files) IN
         /\ files' = r.files
         /\ operations' = r.operations
         /\ last' = [NoCall EXCEPT
                !.call = "rollback", !.given = given, !.steps = steps,
                !.rolled_back = r.rolled_back,
                !.errors = r.errors,
                !.processed = r.processed,
                !.changed = {p \in Paths : r.files[p] # files[p]},
                !.again = (/\ last.call = "rollback"
                           /\ last.given = given
                           /\ last.steps = steps),
                !.errors_before = IF /\ last.call = "rollback"
                                        /\ last.given = given
                                        /\ last.steps = steps
                                       THEN last.errors ELSE <<>>,
                !.operations_before = operations]
    /\ UNCHANGED << backup_files, captured >>
    /\ UNCHANGED << dir_exists, run_vars, reg_vars, cli_vars, chk_vars, dmn_vars >>

\* blocker.py 252-258: cleanup(); rmtree removes the backup directory with
\* everything in it, or fails and the error is dropped
RbCleanup(ok) ==
    /\ IF ok /\ dir_exists
         THEN backup_files' = <<>> /\ dir_exists' = FALSE
         ELSE UNCHANGED << backup_files, dir_exists >>
    /\ last' = [NoCall EXCEPT !.call = "cleanup"]
    /\ UNCHANGED << files, operations, captured >>
    /\ UNCHANGED << run_vars, reg_vars, cli_vars, chk_vars, dmn_vars >>

\* the files the session with rollbacks works on
RollbackPaths == {P_A, P_B}

NextRollback ==
    \/ \E path \in RollbackPaths, ok \in BOOLEAN : BackupFile(path, ok)
    \/ \E path \in RollbackPaths : WriteFile(path)
    \/ \E path \in RollbackPaths : RemoveFile(path)
    \/ \E name \in DOMAIN backup_files : LoseBackup(name)
    \/ \E given \in BOOLEAN, steps \in 0..MaxOps : Rollback(given, steps)

\* a constructor that rebuilds a 'modify' operation from a backup file it
\* finds in the backup directory
FileRollback_init_scan(dir) ==
    IF Name(P_A) \in DOMAIN dir
      THEN << [type |-> "modify", path |-> P_A, backup |-> Name(P_A)] >>
      ELSE <<>>

\* blocker.py 163-167: FileRollback(session_id) on a backup directory that
\* holds `dir`: the directory is kept, self.operations = []
FileRollback_init(dir) == <<>>

\* cli.py 376-421: `sudodog rollback SESSION [--steps N]` in a process of its
\* own; without the backup directory it reports that and returns, otherwise
\* it constructs a FileRollback for the session and calls rollback(steps)
CliRollback(given, steps) ==
    /\ IF ~dir_exists
         THEN /\ last' = [NoCall EXCEPT !.call = "cli_rollback", !.given = given,
                                        !.steps = steps]
              /\ UNCHANGED << files, operations, captured >>
         ELSE LET ops == FileRollback_init(backup_files)
                  r == rollback(ops, IF given THEN steps ELSE Len(ops), files,
                                backup_files)
              IN /\ files' = r.files
                 /\ operations' = ops
                 /\ captured' = <<>>
                 /\ last' = [NoCall EXCEPT
                        !.call = "cli_rollback", !.given = given, !.steps = steps,
                        !.ret = TRUE,
                        !.rolled_back = r.rolled_back,
                        !.errors = r.errors,
                        !.processed = r.processed,
                        !.changed = {p \in DOMAIN files : r.files[p] # files[p]}]
    /\ UNCHANGED << backup_files, dir_exists >>
    /\ UNCHANGED << run_vars, reg_vars, cli_vars, chk_vars, dmn_vars >>

\* the backup directories a rollback command may find: empty, or holding a
\* backup of the first file
FoundBackups == {<<>>, Name(P_A) :> "c1"}

\* a run of the CLI and, in other processes, rollback commands for its session
InitRunThenRollback ==
    /\ RegIdle
    /\ CliIdle
    /\ ChkIdle
    /\ DmnIdle
    /\ InitMonitor
    /\ files \in [RollbackPaths -> {"absent", "c0"}]
    /\ backup_files \in FoundBackups
    /\ operations = <<>>
    /\ captured = <<>>
    /\ last = NoCall
    /\ dir_exists \in (IF mode = "namespace" THEN {TRUE} ELSE BOOLEAN)

NextRunThenRollback ==
    \/ NextRun
    \/ \E given \in BOOLEAN, steps \in 0..MaxOps :
         (given \/ steps = 0) /\ CliRollback(given, steps)

\* a session that backs files up, removes its backup directory and rolls back
NextStore ==
    \/ \E path \in RollbackPaths, ok \in BOOLEAN : BackupFile(path, ok)
    \/ \E path \in RollbackPaths : WriteFile(path)
    \/ \E ok \in BOOLEAN : RbCleanup(ok)
    \/ \E given \in BOOLEAN, steps \in 0..MaxOps : Rollback(given, steps)

\* backup_file calls alone, on every file
NextBackup ==
    \/ \E path \in Paths, ok \in BOOLEAN : BackupFile(path, ok)
    \/ \E path \in Paths : WriteFile(path)
    \/ \E path \in Paths : RemoveFile(path)

(***************************************************************************)
(* The blocker called on commands and on paths.                            *)
(***************************************************************************)
\* commands: harmless ones, one or more for every declared pattern, near misses
CommandParts ==
    << <<"l","s">>,
       <<"D","R","O","P"," ","T","A","B","L","E"," ","u">>,
       <<"d","r","o","p","\t","d","a","t","a","b","a","s","e"," ","x">>,
       <<"T","r","u","n","c","a","t","e"," "," ","T","a","b","l","e"," ","t">>,
       <<"d","e","l","e","t","e"," ","f","r","o","m"," ","t"," ",";">>,
       <<"d","e","l","e","t","e"," ","f","r","o","m"," ","t"," ","w","h","e","r","e"," ","1">>,
       <<"r","m"," ","-","r","f"," ","/">>,
       <<"r","m"," ","-","r","f"," ","*">>,
       <<"s","u","d","o"," ","r","m"," ","-","r","f"," ","/">>,
       <<"c","h","m","o","d"," ","7","7","7"," ","f">>,
       <<"m","k","f","s",".","e","x","t","4">>,
       <<"d","d"," ","i","f","=","/","d","e","v","/","s","d","a">>,
       <<":","(",")","{"," ",":","|",":","&"," ","}",";",":">>,
       <<"c","u","r","l"," ","x"," ","|"," ","p","a","s","t","e","b","i","n">>,
       <<"w","g","e","t"," ","p","a","s","t","e","b","i","n",".","c","o","m">>,
       <<"m","k","f","s","x">>,
       <<"d","r","o","p"," ","t","a","b","l","e">>,
       <<"e","c","h","o"," ","r","m","-","r","f">> >>

\* how many of the commands are taken as the first of two joined commands
MaxJoin == 4

\* one command, or two joined by " && "
CommandInputs ==
    Range(CommandParts)
      \cup { CommandParts[i] \o <<" ","&","&"," ">> \o CommandParts[j] :
               i \in 1..MaxJoin, j \in DOMAIN CommandParts }

\* paths: every blocked entry, their expanded forms, paths under the
\* blocked directory, near misses
PathInputs ==
    { <<"/","e","t","c","/","s","h","a","d","o","w">>,
      <<"/","e","t","c","/","p","a","s","s","w","d">>,
      <<"/","e","t","c","/","s","u","d","o","e","r","s">>,
      <<"~","/",".","s","s","h","/","i","d","_","r","s","a">>,
      <<"/","h","/",".","s","s","h","/","i","d","_","r","s","a">>,
      <<"~","/",".","s","s","h","/","i","d","_","e","d","2","5","5","1","9">>,
      <<"~","/",".","a","w","s","/","c","r","e","d","e","n","t","i","a","l","s">>,
      <<"/","h","/",".","a","w","s","/","c","r","e","d","e","n","t","i","a","l","s">>,
      <<"~","/",".","c","o","n","f","i","g","/","g","c","l","o","u","d","/">>,
      <<"/","h","/",".","c","o","n","f","i","g","/","g","c","l","o","u","d","/">>,
      <<"~","/",".","c","o","n","f","i","g","/","g","c","l","o","u","d","/","k",".","j","s","o","n">>,
      <<"/","h","/",".","c","o","n","f","i","g","/","g","c","l","o","u","d","/","a","/","b">>,
      <<"~","/",".","c","o","n","f","i","g","/","g","c","l","o","u","d">>,
      <<"/","h","/",".","c","o","n","f","i","g","/","g","c","l","o","u","d","x">>,
      <<".","e","n","v">>,
      <<".","e","n","v",".","l","o","c","a","l">>,
      <<".","e","n","v",".","p","r","o","d","u","c","t","i","o","n">>,
      <<"a","p","p","/",".","e","n","v">>,
      <<"/","s","r","v","/",".","e","n","v">>,
      <<".","e","n","v","x">>,
      <<"x",".","e","n","v">>,
      <<"~","/",".","d","o","c","k","e","r","/","c","o","n","f","i","g",".","j","s","o","n">>,
      <<"~","/",".","k","u","b","e","/","c","o","n","f","i","g">>,
      <<"/","h","/",".","k","u","b","e","/","c","o","n","f","i","g">>,
      <<"/","e","t","c","/","s","h","a","d","o","w","2">>,
      <<"/","e","t","c","/","s","h","a","d","o">>,
      <<"/","e","t","c","/">>,
      <<"/","t","m","p","/","x">>,
      <<"~">>,
      <<>>,
      <<"/","h">>,
      <<"~","r","o","o","t","/",".","s","s","h","/","i","d","_","r","s","a">>,
      <<"/","e","t","c","/","p","a","s","s","w","d","/">>,
      <<"/","E","T","C","/","S","H","A","D","O","W">> }

\* paths to write: under every blocked directory, near misses
WritePathInputs ==
    { <<"/","e","t","c","/","h","o","s","t","s">>,
      <<"/","e","t","c","/">>,
      <<"/","e","t","c">>,
      <<"/","e","t","c","x","/","a">>,
      <<"/","u","s","r","/","b","i","n","/","l","s">>,
      <<"/","u","s","r","/","s","b","i","n","/","x">>,
      <<"/","u","s","r","/","l","o","c","a","l","/","b","i","n","/","x">>,
      <<"/","b","i","n","/","s","h">>,
      <<"/","s","b","i","n","/","i","n","i","t">>,
      <<"/","b","o","o","t","/","v","m","l","i","n","u","z">>,
      <<"/","s","y","s","/","k","e","r","n","e","l">>,
      <<"/","p","r","o","c","/","1","/","m","e","m">>,
      <<"/","t","m","p","/","x">>,
      <<"~","/","e","t","c","/","x">>,
      <<"e","t","c","/","x">>,
      <<"/","h","/","a",".","t","x","t">>,
      <<"~","/","a",".","t","x","t">>,
      <<>>,
      <<"/","E","T","C","/","h","o","s","t","s">>,
      <<"/","p","r","o","c">> }

\* the action kinds handed to should_block: the three it knows and others
ActionTypes == {"file_read", "file_write", "command", "network", "exec", ""}

InitBlocker ==
    /\ RunIdle
    /\ RegIdle
    /\ CliIdle
    /\ RbIdle
    /\ DmnIdle
    /\ chk_kind \in {"command", "file_read", "file_write", "should_block"}
    /\ chk_action \in (IF chk_kind = "should_block" THEN ActionTypes ELSE {chk_kind})
    /\ chk_target \in
         (CASE chk_kind = "command" -> CommandInputs
            [] chk_kind = "file_read" -> PathInputs
            [] chk_kind = "file_write" -> WritePathInputs
            [] OTHER -> Range(CommandParts) \cup PathInputs \cup WritePathInputs)
    /\ called = FALSE
    /\ verdict = <<>>

\* blocker.py 114-131: self.blocker.check_command(command)
CheckCommand ==
    /\ chk_kind = "command"
    /\ ~called
    /\ verdict' = check_command(chk_target)
    /\ called' = TRUE
    /\ UNCHANGED << chk_kind, chk_action, chk_target >>
    /\ UNCHANGED << run_vars, reg_vars, cli_vars, rb_vars, dmn_vars >>

\* blocker.py 70-97: self.blocker.check_file_read(path)
CheckFileRead ==
    /\ chk_kind = "file_read"
    /\ ~called
    /\ verdict' = check_file_read(chk_target)
    /\ called' = TRUE
    /\ UNCHANGED << chk_kind, chk_action, chk_target >>
    /\ UNCHANGED << run_vars, reg_vars, cli_vars, rb_vars, dmn_vars >>

\* blocker.py 99-112: self.blocker.check_file_write(path)
CheckFileWrite ==
    /\ chk_kind = "file_write"
    /\ ~called
    /\ verdict' = check_file_write(chk_target)
    /\ called' = TRUE
    /\ UNCHANGED << chk_kind, chk_action, chk_target >>
    /\ UNCHANGED << run_vars, reg_vars, cli_vars, rb_vars, dmn_vars >>

\* blocker.py 133-157: self.blocker.should_block(action_type, target)
CallShouldBlock ==
    /\ chk_kind = "should_block"
    /\ ~called
    /\ verdict' = should_block(chk_action, chk_target)
    /\ called' = TRUE
    /\ UNCHANGED << chk_kind, chk_action, chk_target >>
    /\ UNCHANGED << run_vars, reg_vars, cli_vars, rb_vars, dmn_vars >>

NextBlocker == CheckCommand \/ CheckFileRead \/ CheckFileWrite \/ CallShouldBlock

(***************************************************************************)
(* A DockerSandbox driven call by call (docker_sandbox.py 53-207): the     *)
(* container is created, started and exits, and stop() and cleanup() are   *)
(* called in any state and any number of times.                            *)
(***************************************************************************)
\* bound on the stop() and cleanup() calls made on one sandbox
MaxCalls == 4

sbx_rest == << mode, command, pc, actions, log_file, blocked_count, process, child,
               open_files, pending, outcome, result, screened, spawned, log_fault,
               intr, failure, swallowed, engine_fault, handles >>

InitSandbox ==
    /\ RunIdle
    /\ RegIdle
    /\ ExtIdle

\* docker_sandbox.py 53-143: create_container
SbxCreate ==
    /\ container = "None"
    /\ container' = "created"
    /\ UNCHANGED << child_status, calls, sbx_rest >>
    /\ UNCHANGED << reg_vars, ext_vars >>

\* docker_sandbox.py 145-152: start
SbxStart ==
    /\ container = "created"
    /\ container' = "running"
    /\ UNCHANGED << child_status, calls, sbx_rest >>
    /\ UNCHANGED << reg_vars, ext_vars >>

\* the command inside the container ends
SbxExit ==
    /\ pc = "done"
    /\ container = "running"
    /\ container' = "exited"
    /\ child_status' \in ExitCodes
    /\ UNCHANGED << calls, sbx_rest >>
    /\ UNCHANGED << reg_vars, ext_vars >>

\* docker_sandbox.py 189-197: stop()
SbxStop ==
    /\ Len(calls) < MaxCalls
    /\ \E ok \in BOOLEAN :
         /\ container' = stop(container, ok)
         /\ calls' = Append(calls, Call("stop", container, ok, stop(container, ok)))
    /\ UNCHANGED << child_status, sbx_rest >>
    /\ UNCHANGED << reg_vars, ext_vars >>

\* docker_sandbox.py 199-207: cleanup()
SbxCleanup ==
    /\ Len(calls) < MaxCalls
    /\ \E ok \in BOOLEAN :
         /\ container' = cleanup(container, ok)
         /\ calls' = Append(calls, Call("cleanup", container, ok, cleanup(container, ok)))
    /\ UNCHANGED << child_status, sbx_rest >>
    /\ UNCHANGED << reg_vars, ext_vars >>

NextSandbox == SbxCreate \/ SbxStart \/ SbxExit \/ SbxStop \/ SbxCleanup

(***************************************************************************)
(* SudoDogDaemon.start and stop (daemon.py 47-71, 202-275), called by      *)
(* `sudodog daemon start` commands that run as processes of their own.     *)
(***************************************************************************)
\* the `daemon start` commands given
NumStarters == 2

Starters == 1..NumStarters

\* the pid of the process that the double fork of command c leaves running
DaemonPid(c) == c + NumStarters

\* daemon.py 57-71: is_running(): the PID file exists and names a live process
is_running(file, live) == file # 0 /\ file \in live

\* daemon.py 68-71: is_running() removes a PID file that names a dead process
checked(file, live) == IF file # 0 /\ file \notin live THEN 0 ELSE file

InitDaemon ==
    /\ RunIdle
    /\ RegIdle
    /\ CliIdle
    /\ RbIdle
    /\ ChkIdle
    /\ pid_file = 0
    /\ alive = Starters
    /\ looping = {}
    /\ dpc = [c \in Starters |-> "start"]
    /\ foreground \in [Starters -> BOOLEAN]

dmn_unchanged == << run_vars, reg_vars, cli_vars, rb_vars, chk_vars >>

\* daemon.py 204-206: start() asks is_running() and returns when it is true
DaemonCheck(c) ==
    /\ dpc[c] = "start"
    /\ pid_file' = checked(pid_file, alive)
    /\ dpc' = [dpc EXCEPT ![c] = IF is_running(pid_file, alive) THEN "returned"
                                                                  ELSE "write"]
    /\ UNCHANGED << alive, looping, foreground >>
    /\ UNCHANGED dmn_unchanged

\* daemon.py 208-209, 47-50: self.running = True; write_pid() writes the pid
\* of the process that called start()
DaemonWritePid(c) ==
    /\ dpc[c] = "write"
    /\ pid_file' = c
    /\ dpc' = [dpc EXCEPT ![c] = IF foreground[c] THEN "loop" ELSE "fork"]
    /\ UNCHANGED << alive, looping, foreground >>
    /\ UNCHANGED dmn_unchanged

\* daemon.py 211-214: foreground mode enters monitor_loop in the caller
DaemonLoop(c) ==
    /\ dpc[c] = "loop"
    /\ looping' = looping \cup {c}
    /\ dpc' = [dpc EXCEPT ![c] = "looping"]
    /\ UNCHANGED << pid_file, alive, foreground >>
    /\ UNCHANGED dmn_unchanged

\* daemon.py 218-259: background mode; after the double fork the second
\* child enters monitor_loop and the caller returns, or fork fails and the
\* caller returns
DaemonFork(c) ==
    /\ dpc[c] = "fork"
    /\ \/ /\ alive' = alive \cup {DaemonPid(c)}
          /\ looping' = looping \cup {DaemonPid(c)}
       \/ UNCHANGED << alive, looping >>
    /\ dpc' = [dpc EXCEPT ![c] = "returned"]
    /\ UNCHANGED << pid_file, foreground >>
    /\ UNCHANGED dmn_unchanged

\* cli.py 501-502: start() has returned and the command's process ends
DaemonExit(c) ==
    /\ dpc[c] = "returned"
    /\ alive' = alive \ {c}
    /\ dpc' = [dpc EXCEPT ![c] = "exited"]
    /\ UNCHANGED << pid_file, looping, foreground >>
    /\ UNCHANGED dmn_unchanged

\* daemon.py 261-275: stop() called by process p: SIGTERM to the process the
\* PID file names, then remove_pid(); a process that signals itself ends
\* before it removes the file
stopped(p) ==
    IF is_running(pid_file, alive)
      THEN [pid_file |-> IF pid_file = p THEN pid_file ELSE 0,
            killed |-> {pid_file}]
      ELSE [pid_file |-> checked(pid_file, alive), killed |-> {}]

\* daemon.py 193-195, 211-215, 256-259: an interrupt ends the loop of
\* process p; the foreground caller then runs stop(), the background
\* process remove_pid(), and the process ends
LoopInterrupt(p) ==
    /\ p \in looping
    /\ IF p \in Starters
         THEN /\ pid_file' = stopped(p).pid_file
              /\ alive' = alive \ (stopped(p).killed \cup {p})
              /\ looping' = looping \ (stopped(p).killed \cup {p})
              /\ dpc' = [dpc EXCEPT ![p] = "exited"]
         ELSE /\ pid_file' = 0
              /\ alive' = alive \ {p}
              /\ looping' = looping \ {p}
              /\ UNCHANGED dpc
    /\ UNCHANGED foreground
    /\ UNCHANGED dmn_unchanged

\* cli.py 509-520: `sudodog daemon stop` in a process of its own
DaemonStop ==
    /\ pid_file # 0
    /\ pid_file' = stopped(0).pid_file
    /\ alive' = alive \ stopped(0).killed
    /\ looping' = looping \ stopped(0).killed
    /\ dpc' = [c \in Starters |->
                 IF c \in stopped(0).killed THEN "exited" ELSE dpc[c]]
    /\ UNCHANGED foreground
    /\ UNCHANGED dmn_unchanged

NextDaemon ==
    \/ \E c \in Starters :
         DaemonCheck(c) \/ DaemonWritePid(c) \/ DaemonLoop(c) \/ DaemonFork(c)
             \/ DaemonExit(c)
    \/ \E p \in looping : LoopInterrupt(p)
    \/ DaemonStop

vars == << run_vars, reg_vars, ext_vars >>

\* one `sudodog run`, in either mode
SpecRun == InitRun /\ [][NextRun]_vars

\* concurrent add_session / remove_session calls on the shared file
SpecRegistry == InitRegistry /\ [][NextRegistry]_vars

\* add_session / remove_session / list_active by one caller
SpecSession == InitSession /\ [][NextSession]_vars

\* several `sudodog run` commands side by side
SpecCli == InitCli /\ [][NextCli]_vars

\* one FileRollback and the files it backs up
SpecRollback == InitRollback /\ [][NextRollback]_vars

\* one FileRollback taking backups
SpecBackup == InitRollback /\ [][NextBackup]_vars

SpecStore == InitRollback /\ [][NextStore]_vars

SpecRunThenRollback == InitRunThenRollback /\ [][NextRunThenRollback]_vars

\* the blocker called once on a command or a path
SpecBlocker == InitBlocker /\ [][NextBlocker]_vars

SpecSandbox == InitSandbox /\ [][NextSandbox]_vars

SpecDaemon == InitDaemon /\ [][NextDaemon]_vars

(***************************************************************************)
(* Properties of one run.                                                  *)
(***************************************************************************)
Count(events, action_type) ==
    Cardinality({i \in DOMAIN events : events[i].action_type = action_type})

\* check_command denies: at least one dangerous pattern matches
Denied(c) == Matched(c, 1) # <<>>

\* the environment behaved: every log write succeeded, no interrupt arrived,
\* and neither the launch nor the wait failed
Nominal == ~log_fault /\ intr = "none" /\ failure = NoFailure

Returned == pc = "done" /\ mode = "namespace"

\* C1: a command that check_command denies is never launched; run() returns 1
\* and its log ends with exactly one 'blocked' event (allowed=false, with the
\* reason and the matched patterns) followed by one 'complete' event with
\* exit_code=1 and blocked_actions=1.
C1_DeniedCommandIsBlocked ==
    (mode = "namespace" /\ Denied(command) /\ Nominal) =>
        /\ spawned = 0
        /\ child = "none"
        /\ Returned =>
             /\ outcome = Return(1)
             /\ Count(log_file, "blocked") = 1
             /\ Count(log_file, "complete") = 1
             /\ Len(log_file) >= 2
             /\ log_file[Len(log_file) - 1] =
                  [action_type |-> "blocked", allowed |-> FALSE,
                   details |-> [command |-> command,
                                reason |-> check_command(command).reason,
                                patterns |-> Matched(command, 1)]]
             /\ log_file[Len(log_file)].action_type = "complete"
             /\ log_file[Len(log_file)].details.exit_code = 1
             /\ log_file[Len(log_file)].details.blocked_actions = 1

\* C2: for a command that check_command allows, run() starts exactly one
\* child, logs 'start', then only 'file_access' events, then one 'complete'
\* event, logs no 'blocked' event, and returns the child's exit code, which
\* is the exit_code of the 'complete' event.
C2_AllowedCommandRuns ==
    (Returned /\ ~Denied(command) /\ Nominal) =>
        /\ spawned = 1
        /\ Len(log_file) >= 2
        /\ log_file[1].action_type = "start"
        /\ \A i \in 2..(Len(log_file) - 1) : log_file[i].action_type = "file_access"
        /\ log_file[Len(log_file)].action_type = "complete"
        /\ Count(log_file, "blocked") = 0
        /\ outcome = Return(child_status)
        /\ log_file[Len(log_file)].details.exit_code = child_status

\* C3: in the namespace mode and in the Docker mode alike, a process or a
\* container exists only after check_command was evaluated on the command
\* and allowed it.
C3_ScreenedBeforeLaunch ==
    (child # "none" \/ container # "None") =>
        screened /\ check_command(command).allowed

\* C4: when the run has ended, on whatever path, a child that was started
\* has been terminated (or has exited) and a container that was created has
\* been removed (for the container: when the engine carried out every stop
\* and remove call and __exit__ itself was not interrupted).
C4_NothingLeftRunning ==
    /\ Returned => child # "running"
    /\ (pc = "done" /\ mode = "docker" /\ ~engine_fault /\ outcome.kind = "exit") =>
          container \in {"None", "removed"}

\* C5: when an interrupt reached run() after the child was launched, run()
\* returns 130, has logged exactly one 'interrupted' event, and the child is
\* not running any more (here with every log write succeeding).
C5_InterruptTerminatesChild ==
    (Returned /\ intr = "post" /\ ~log_fault) =>
        /\ outcome = Return(130)
        /\ Count(log_file, "interrupted") = 1
        /\ child # "running"

\* C6: run() always ends by returning an exit code: no exception reaches
\* its caller, whatever fails (a log write, the launch, the wait) and
\* whenever an interrupt arrives.
C6_RunNeverRaises == Returned => outcome.kind = "return"

\* C7 as stated: whenever a failure other than an interrupt occurs while
\* run() launches, inspects or waits on the child -- the errors of the
\* open-file enumeration included -- run() logs one 'error' event with
\* allowed=false and the failure's string form and returns 1 (here with
\* every log write succeeding and no interrupt).
C7_EveryFailureIsLogged ==
    (Returned /\ intr = "none" /\ ~log_fault /\ (failure # NoFailure \/ swallowed)) =>
        /\ outcome = Return(1)
        /\ Count(log_file, "error") = 1
        /\ log_file[Len(log_file)] =
             [action_type |-> "error", allowed |-> FALSE,
              details |-> [error |-> failure.str]]

\* C7 as amended: a failure other than an interrupt that is raised inside the
\* try block while run() launches, inspects or waits on the child makes
\* run() record one 'error' event, the last one, with allowed=false and the
\* failure's string form; once that event is written run() returns 1, and
\* if writing it fails the OSError leaves run().  AccessDenied and
\* NoSuchProcess raised by open_files() are no such failure: they are
\* swallowed, no 'error' event is recorded and the run goes on to the wait.
C7_FailureIsLogged ==
    (Returned /\ intr = "none") =>
        IF failure # NoFailure
          THEN /\ Count(actions, "error") = 1
               /\ actions[Len(actions)] =
                    [action_type |-> "error", allowed |-> FALSE,
                     details |-> [error |-> failure.str]]
               /\ IF Count(log_file, "error") = 1
                    THEN /\ outcome = Return(1)
                         /\ log_file[Len(log_file)] = actions[Len(actions)]
                    ELSE /\ outcome = Raised("OSError")
                         /\ Count(log_file, "error") = 0
          ELSE /\ Count(actions, "error") = 0
               /\ (swallowed /\ outcome.kind = "return" /\ ~ShouldBlock(command))
                     => outcome = Return(child_status)

\* a wait failure, logged as an 'error' event, ended the run with 1
C7_Witness ==
    /\ Returned
    /\ intr = "none"
    /\ failure = [kind |-> "wait", str |-> "UnicodeDecodeError"]
    /\ Count(log_file, "error") = 1
    /\ outcome = Return(1)

(***************************************************************************)
(* Properties of the session registry.                                     *)
(***************************************************************************)
AllFinished == \A p \in Procs : rpc[p] \in {"done", "failed"}

AllReturned == \A p \in Procs : rpc[p] = "done"

\* how many entries session_id should have once every call has returned
Expected(session_id) ==
    IF session_id \in Procs
      THEN (IF op[session_id] = "add" THEN 1 ELSE 0)
      ELSE Occurrences(registry0, session_id)

\* C8: once all concurrent add_session / remove_session calls have returned,
\* the registry holds exactly one entry for each session that was added and
\* not removed and none for a removed session: nothing lost, nothing twice.
C8_NoLostOrDuplicateEntry ==
    AllReturned =>
        /\ Parses(file_data)
        /\ \A session_id \in SessionIds :
             Occurrences(load(file_data), session_id) = Expected(session_id)

\* C9: the entry of session 0, which no caller touches, is still in the
\* registry once the concurrent calls of the other sessions have finished.
C9_ThirdEntrySurvives ==
    (AllFinished /\ Occurrences(registry0, 0) = 1) =>
        /\ ~list_active.raise
        /\ Occurrences(list_active.value, 0) = 1

\* C10: for a caller alone, list_active() after add_session(id) holds the
\* entry for id exactly once, and after remove_session(id) it holds no entry
\* for id and every other entry, in the original order.
C10_AddRemoveThenList ==
    phase = "listed" =>
        /\ last_call.op = "add" =>
             Occurrences(listed, last_call.session_id) = 1
        /\ last_call.op = "remove" =>
             /\ Occurrences(listed, last_call.session_id) = 0
             /\ listed = SelectSeq(before, LAMBDA s : s # last_call.session_id)

\* p's AgentMonitor exists
Created(p) == cpc[p] # "new"

\* the registry file holds an entry with the session id of p
Registered(p) ==
    \E i \in DOMAIN file_data : file_data[i] = monitor[p].session_id

\* C11: two sessions created without an explicit session_id, also in the
\* same clock second, have different session ids; hence different log files
\* (no log file holds lines of two sessions), different backup directories,
\* and removing the one from a registry holding both leaves the other.
C11_DistinctSessionIds ==
    /\ \A p, q \in Procs :
         (p # q /\ Created(p) /\ Created(q)) =>
            /\ monitor[p].session_id # monitor[q].session_id
            /\ monitor[p].log_file # monitor[q].log_file
            /\ backup_dir[p] # backup_dir[q]
            /\ Occurrences(removed(<< monitor[p].session_id, monitor[q].session_id >>,
                                   monitor[p].session_id),
                           monitor[q].session_id) = 1
    /\ \A f \in DOMAIN logs :
         \A i, j \in DOMAIN logs[f] : logs[f][i] = logs[f][j]

\* C12: in the namespace run path (no interrupt outside monitor.run()) the
\* session's entry is in the registry while monitor.run() runs, and once
\* cli.run has ended after a run that began, however the run ended, the
\* registry holds no entry of that session.
C12_RegisteredForTheRun ==
    ~cli_intr =>
        \A p \in Procs :
            /\ cpc[p] = "run" => Registered(p)
            /\ (cpc[p] = "exit" /\ began[p]) => ~Registered(p)

\* the last call was rollback(steps) with steps given
RolledBack(steps) ==
    last.call = "rollback" /\ last.given /\ last.steps = steps

\* the backup of operation i is in the backup directory as it was taken
Intact(i) ==
    /\ operations[i].backup \in DOMAIN backup_files
    /\ backup_files[operations[i].backup] = captured[i]

\* self.operations is [create A, modify B, modify B] and both backups of B
\* are in the backup directory
CreateModifyModify ==
    /\ Len(operations) = 3
    /\ operations[1].type = "create"
    /\ operations[2].type = "modify"
    /\ operations[3].type = "modify"
    /\ operations[2].path = operations[3].path
    /\ operations[1].path # operations[2].path
    /\ Intact(2)
    /\ Intact(3)

\* C13 as stated: with [create A, modify B, modify B] recorded, rollback(2)
\* leaves B with the content it had immediately before the second
\* modification (the one backed up by the third operation).
C13_RollbackTwoStopsAtSecond ==
    (RolledBack(2) /\ CreateModifyModify) =>
        files[operations[3].path] = captured[3]

\* C13 amended: with [create A, modify B, modify B] recorded, rollback(2)
\* undoes both modifications of B and leaves B with its pre-session content,
\* the one backed up before the first modification; rollback(1) is the call
\* that leaves B with the content it had before the second modification.
C13_RollbackTwoUnwindsBoth ==
    /\ (RolledBack(2) /\ CreateModifyModify) =>
           files[operations[2].path] = captured[2]
    /\ (RolledBack(1) /\ CreateModifyModify) =>
           files[operations[3].path] = captured[3]

C13_Witness ==
    /\ RolledBack(2)
    /\ CreateModifyModify
    /\ captured[2] # captured[3]
    /\ files[operations[2].path] = captured[2]
    /\ last.processed = << 3, 2 >>

\* the operations the last rollback call selected
Sel == (SliceStart(Len(operations), last.steps) + 1)..Len(operations)

\* n, n-1, ..., n-k+1
Descending(n, k) == [j \in 1..k |-> n - j + 1]

\* C14: rollback(steps) with 0 <= steps <= n processes exactly the last
\* `steps` of the n recorded operations, most recent first, and changes no
\* file of an earlier operation (rollback(0) changes nothing); rollback()
\* without steps processes all n.
C14_ProcessesLastSteps ==
    last.call = "rollback" =>
        /\ last.processed = Descending(Len(operations), last.steps)
        /\ \A p \in last.changed :
             \E j \in 1..last.steps :
                 operations[Len(operations) - j + 1].path = p

\* C15: after backup_file(F) on an existing file F (the last operation, its
\* backup in place), whatever was written to F since, rollback(1) leaves F
\* with exactly the content that was backed up; and when the last operation
\* is the 'create' of a path that did not exist, rollback(1) leaves no file
\* at that path.
C15_RoundTrip ==
    (RolledBack(1) /\ Len(operations) >= 1) =>
        LET n == Len(operations) IN
          /\ (operations[n].type = "modify" /\ Intact(n)) =>
                 files[operations[n].path] = captured[n]
          /\ operations[n].type = "create" =>
                 files[operations[n].path] = "absent"

C15_Witness ==
    /\ RolledBack(1)
    /\ Len(operations) >= 1
    /\ operations[Len(operations)].type = "modify"
    /\ Intact(Len(operations))
    /\ operations[Len(operations)].path \in last.changed
    /\ files[operations[Len(operations)].path] = captured[Len(operations)]

\* C16: within one session the backup paths of the 'modify' operations are
\* pairwise distinct, and every recorded backup holds the content it was
\* taken with: no backup_file call has written over an earlier backup.
C16_BackupsNeverOverwritten ==
    /\ \A i, j \in DOMAIN operations :
         (i < j /\ operations[i].type = "modify" /\ operations[j].type = "modify")
            => operations[i].backup # operations[j].backup
    /\ \A i \in DOMAIN operations :
         operations[i].type = "modify" => Intact(i)

C16_Witness ==
    /\ Len(operations) = 3
    /\ \A i \in 1..3 : operations[i].type = "modify"
    /\ operations[1].path = P_A
    /\ operations[2].path = P_A
    /\ operations[3].path = P_A1
    /\ operations[2].backup = Name(P_A1)
    /\ operations[3].backup = Suffixed(P_A1, 1)
    /\ captured[1] # captured[2]

\* C17: when the backup of exactly one selected operation is missing,
\* rollback goes through all selected operations, returns exactly one error,
\* naming the path of that operation, and every other selected operation is
\* restored: each path ends as the oldest of its other selected operations
\* leaves it.
C17_PartialRollback ==
    (last.call = "rollback" /\ Cardinality(Lost \cap Sel) = 1) =>
        LET f == CHOOSE i \in Lost \cap Sel : TRUE IN
          /\ last.errors = << operations[f].path >>
          /\ Len(last.processed) = Cardinality(Sel)
          /\ last.rolled_back >=
                Cardinality({i \in Sel \ {f} : operations[i].type = "modify"})
          /\ \A i \in Sel \ {f} :
               (\A j \in Sel \ {f} :
                    operations[j].path = operations[i].path => i <= j)
                 => files[operations[i].path] =
                       IF operations[i].type = "create" THEN "absent"
                       ELSE backup_files[operations[i].backup]

C17_Witness ==
    /\ last.call = "rollback"
    /\ Cardinality(Lost \cap Sel) = 1
    /\ Len(last.processed) >= 2
    /\ last.processed[1] \in Lost
    /\ last.errors = << operations[last.processed[1]].path >>
    /\ last.rolled_back >= 1
    /\ last.changed # {}

\* C18: rollback leaves self.operations as it was; a second rollback(steps)
\* right after the first changes no file and reports what the first one
\* reported; a 'create' operation whose file is already gone reports no
\* error (the only errors are those of missing backups).
C18_RollbackIdempotent ==
    last.call = "rollback" =>
        /\ operations = last.operations_before
        /\ last.again => (last.changed = {} /\ last.errors = last.errors_before)
        /\ Len(last.errors) = Cardinality(Lost \cap Sel)

C18_Witness ==
    /\ last.call = "rollback"
    /\ last.again
    /\ \E i \in Sel : operations[i].type = "create" /\ files[operations[i].path] = "absent"
    /\ \E i \in Sel : operations[i].type = "modify" /\ Intact(i)
    /\ last.rolled_back >= 1
    /\ last.errors = <<>>

\* the declared patterns that match command c
Hits(c) == {i \in DOMAIN compiled_patterns : Search(compiled_patterns[i], c)}

\* the k-th smallest element of a set of numbers
Kth(S, k) == CHOOSE i \in S : Cardinality({h \in S : h < i}) = k - 1

\* C19: check_command(c) returns allowed = false exactly when some declared
\* pattern matches c; matched_patterns then holds every matching pattern, in
\* declaration order, and there is a reason; when none matches it returns
\* allowed = true, no reason and an empty list.
C19_CheckCommand ==
    (called /\ chk_kind = "command") =>
        /\ verdict.allowed = (Hits(chk_target) = {})
        /\ Len(verdict.matched_patterns) = Cardinality(Hits(chk_target))
        /\ \A k \in DOMAIN verdict.matched_patterns :
             verdict.matched_patterns[k] = DANGEROUS_PATTERNS[Kth(Hits(chk_target), k)]
        /\ (verdict.reason = None) = (Hits(chk_target) = {})

C19_Witness ==
    /\ called
    /\ chk_kind = "command"
    /\ ~verdict.allowed
    /\ Len(verdict.matched_patterns) >= 3
    /\ verdict.matched_patterns[1] # DANGEROUS_PATTERNS[1]

\* path equals blocked entry i, after expansion of "~"
Exact(path, i) == expanduser(path) = expanduser(BLOCKED_READ_PATHS[i])

\* path begins with blocked entry i, which ends with "/"
Under(path, i) ==
    /\ EndsWith(expanduser(BLOCKED_READ_PATHS[i]), <<"/">>)
    /\ StartsWith(expanduser(path), expanduser(BLOCKED_READ_PATHS[i]))

\* path matches blocked entry i, a glob
Globbed(path, i) ==
    /\ "*" \in Range(BLOCKED_READ_PATHS[i])
    /\ Search({GlobPattern(BLOCKED_READ_PATHS[i])}, path)

\* the blocked entries that path matches in some way
Entries(path) ==
    {i \in DOMAIN BLOCKED_READ_PATHS : Exact(path, i) \/ Under(path, i) \/ Globbed(path, i)}

Denial(path, why) ==
    [allowed |-> FALSE, reason |-> <<"Access to ">> \o path \o <<why>>]

\* C20 as stated: a path equal to an entry is denied as 'sensitive file', a
\* path under an entry ending with "/", the directory path itself included,
\* as 'sensitive directory', a path matching a glob entry as 'sensitive
\* pattern', and a path matching no entry is allowed.
C20_ReadRules ==
    (called /\ chk_kind = "file_read") =>
        /\ (\E i \in DOMAIN BLOCKED_READ_PATHS : Exact(chk_target, i))
              => verdict = Denial(chk_target, " is blocked (sensitive file)")
        /\ (\E i \in DOMAIN BLOCKED_READ_PATHS : Under(chk_target, i))
              => verdict = Denial(chk_target, " is blocked (sensitive directory)")
        /\ Entries(chk_target) = {} => verdict = [allowed |-> TRUE, reason |-> None]

\* C20 amended: the first entry in declaration order that the path matches
\* decides; a path equal to it (the path of a blocked directory, trailing "/"
\* included, is equal to its entry) is denied as 'sensitive file', otherwise
\* a path under it as 'sensitive directory', otherwise a path matching it as
\* a glob as 'sensitive pattern'; a path matching no entry is allowed.
C20_FirstEntryDecides ==
    (called /\ chk_kind = "file_read") =>
        IF Entries(chk_target) = {}
          THEN verdict = [allowed |-> TRUE, reason |-> None]
          ELSE LET i == Kth(Entries(chk_target), 1) IN
               verdict = Denial(chk_target,
                   IF Exact(chk_target, i) THEN " is blocked (sensitive file)"
                   ELSE IF Under(chk_target, i) THEN " is blocked (sensitive directory)"
                   ELSE " is blocked (matches sensitive pattern)")

C20_Witness ==
    /\ called
    /\ chk_kind = "file_read"
    /\ \E i \in DOMAIN BLOCKED_READ_PATHS :
         /\ chk_target = BLOCKED_READ_PATHS[i]
         /\ Under(chk_target, i)
    /\ verdict = Denial(chk_target, " is blocked (sensitive file)")

\* what the check that should_block dispatches to returns
Dispatched(action_type, t) ==
    CASE action_type = "file_read" -> check_file_read(t)
      [] action_type = "file_write" -> check_file_write(t)
      [] action_type = "command" -> check_command(t)
      [] OTHER -> [allowed |-> TRUE, reason |-> None]

\* C21: should_block(kind, target) returns blocked = not allowed and the
\* reason of check_file_read, check_file_write or check_command for the kind
\* file_read, file_write or command, and not blocked with no reason for
\* every other kind, whatever the target.
C21_ShouldBlockDispatch ==
    (called /\ chk_kind = "should_block") =>
        /\ verdict.block = ~Dispatched(chk_action, chk_target).allowed
        /\ verdict.reason = Dispatched(chk_action, chk_target).reason
        /\ chk_action \notin {"file_read", "file_write", "command"} =>
             verdict = [block |-> FALSE, reason |-> None]

C21_Witness ==
    /\ called
    /\ chk_kind = "should_block"
    /\ chk_action = "network"
    /\ ~check_command(chk_target).allowed
    /\ verdict = [block |-> FALSE, reason |-> None]

\* cli.py 93-182: how the command ends; sys.exit(code) with the code, an
\* exception that leaves the command ends the process with status 1
ExitStatus(o) == IF o.kind = "raise" THEN 1 ELSE o.code

\* C22: when the selected isolation backend cannot be used (the Docker
\* engine is unreachable when DockerSandbox is constructed, or the namespace
\* tool cannot be launched), no child and no container is ever created, the
\* command is not started any other way, and the run ends with a failure
\* exit status.
C22_NoUnsandboxedFallback ==
    failure.kind \in {"launch", "engine"} =>
        /\ spawned = 0
        /\ child = "none"
        /\ container = "None"
        /\ pc = "done" => (outcome # NoOutcome /\ ExitStatus(outcome) # 0)

C22_Witness ==
    /\ mode = "namespace"
    /\ failure.kind = "launch"
    /\ pc = "done"
    /\ outcome = Return(1)
    /\ spawned = 0

\* wait() has returned to the CLI
Waited == mode = "docker" /\ (pc = "d_exit" \/ result # NoResult)

\* the records wait() may return
WaitResults ==
    [exit_code : ExitCodes, output : {"logs"}]
        \cup { [exit_code |-> -1, output |-> err] : err \in WaitErrors }

\* C23 as stated: once the container exists, wait() returns a record with an
\* exit code and the output and never raises; when the wait timed out or the
\* engine call failed the record is exit_code -1 with the error text; and
\* the container is stopped and removed when the sandbox scope is left (here
\* without any interrupt).
C23_WaitThenRemoved ==
    (Waited /\ intr = "none") =>
        /\ result \in WaitResults
        /\ (pc = "d_exit" /\ container = "running") =>
              (result.exit_code = -1 /\ result.output \in WaitErrors)
        /\ pc = "done" => container = "removed"

\* C23 as amended: once the container exists, wait() returns a record with
\* an exit code and the output; when the wait timed out or the engine call
\* failed the record is exit_code -1 with the error text. When the sandbox
\* scope is left, stop() and then cleanup() have been called and have
\* returned, unless an interrupt arrived inside __exit__; the container is
\* removed when the engine carried out the remove call, and is left as it
\* was when that call failed.
C23_WaitThenTeardown ==
    Waited =>
        /\ result \in WaitResults
        /\ (pc = "d_exit" /\ container = "running") =>
              (result.exit_code = -1 /\ result.output \in WaitErrors)
        /\ pc = "done" =>
              \/ outcome = Raised("KeyboardInterrupt") /\ Len(calls) < 2
              \/ /\ Len(calls) = 2
                 /\ calls[1].call = "stop" /\ calls[1].returned
                 /\ calls[2].call = "cleanup" /\ calls[2].returned
                 /\ calls[2].answer = "ok" => container = "removed"
                 /\ calls[2].answer = "error" => container = calls[2].before

C23_Witness ==
    /\ mode = "docker"
    /\ pc = "done"
    /\ result = [exit_code |-> -1, output |-> "ReadTimeout"]
    /\ outcome = Exit(-1)
    /\ Len(calls) = 2
    /\ calls[1].before = "running"
    /\ container = "removed"

\* the call before call i was a cleanup() too and nothing happened in between
Repeated(i) ==
    /\ i > 1
    /\ calls[i].call = "cleanup"
    /\ calls[i - 1].call = "cleanup"
    /\ calls[i].before = calls[i - 1].after

\* C24 as stated: stop() and cleanup() return normally in every state; after
\* a cleanup() the container does not exist; a repeated cleanup() changes
\* nothing.
C24_CleanupAlwaysRemoves ==
    \A i \in DOMAIN calls :
        /\ calls[i].returned
        /\ calls[i].call = "cleanup" => calls[i].after \in {"None", "removed"}
        /\ Repeated(i) => calls[i].after = calls[i].before

\* C24 as amended: stop() and cleanup() return normally in every state; a
\* cleanup() whose remove call the engine carries out leaves no container,
\* even when the container was still running or a stop() failed before; a
\* stop() or cleanup() that makes no engine call or whose engine call fails
\* leaves the container as it was; once the container is removed every
\* further stop() and cleanup() changes nothing.
C24_CleanupBestEffort ==
    \A i \in DOMAIN calls :
        /\ calls[i].returned
        /\ (calls[i].call = "cleanup" /\ calls[i].answer = "ok") =>
              calls[i].after = "removed"
        /\ calls[i].answer \in {"skipped", "error"} =>
              calls[i].after = calls[i].before
        /\ calls[i].before \in {"None", "removed"} =>
              calls[i].after = calls[i].before
        /\ calls[i].call = "stop" => calls[i].after \in {calls[i].before, "stopped"}

C24_Witness ==
    /\ Len(calls) = 3
    /\ calls[1] = [call |-> "stop", before |-> "running", answer |-> "error",
                   after |-> "running", returned |-> TRUE]
    /\ calls[2] = [call |-> "cleanup", before |-> "running", answer |-> "ok",
                   after |-> "removed", returned |-> TRUE]
    /\ calls[3].call = "cleanup"
    /\ calls[3].after = "removed"
    /\ container = "removed"

\* the 'file_access' events logged so far
FileAccesses == SelectSeq(log_file, LAMBDA ev : ev.action_type = "file_access")

\* the 'file_access' events logged so far with allowed=false
Refused == SelectSeq(FileAccesses, LAMBDA ev : ~ev.allowed)

\* C25: while the open file handles of the child are inspected, the k-th
\* 'file_access' event is the event of the k-th handle, with its path and
\* mode and with allowed as check_file_read decides; a denial adds one to the
\* blocked counter and nothing else: the child is not terminated, and a run
\* without interrupt and failure logs one event for every handle, waits
\* for the child and returns the child's exit code.
C25_InspectionOnlyObserves ==
    (mode = "namespace" /\ ~log_fault) =>
        /\ Len(FileAccesses) <= Len(handles)
        /\ \A k \in DOMAIN FileAccesses :
             FileAccesses[k] =
                 Entry("file_access",
                       [path |-> handles[k].path, mode |-> handles[k].mode],
                       check_file_read(handles[k].path).allowed)
        /\ spawned > 0 => blocked_count = Len(Refused)
        /\ (intr = "none" /\ pc = "inspect") => child \in {"running", "exited"}
        /\ (Returned /\ Nominal /\ spawned > 0) =>
              /\ Len(FileAccesses) = Len(handles)
              /\ child = "exited"
              /\ outcome = Return(child_status)

C25_Witness ==
    /\ Returned
    /\ Nominal
    /\ handles = <<F_passwd, F_tmp>>
    /\ Len(FileAccesses) = 2
    /\ ~FileAccesses[1].allowed
    /\ FileAccesses[2].allowed
    /\ blocked_count = 1
    /\ outcome = Return(child_status)

\* the paths some recorded operation names
Recorded(ops) == { ops[i].path : i \in DOMAIN ops }

\* C26: a backup_file call whose copy into the backup directory fails, also
\* because cleanup() has removed the directory, returns False and leaves the
\* operations list as it was; a rollback changes and reports only paths that
\* a recorded operation names, so it neither restores nor reports a path
\* whose backup failed.
C26_FailedBackupLeavesNoTrace ==
    /\ (last.call = "backup_file" /\ ~last.ret) =>
          /\ operations = last.operations_before
    /\ (last.call = "backup_file" /\ ~dir_exists /\ files[last.path] # "absent") =>
          ~last.ret
    /\ last.call = "rollback" =>
          /\ last.changed \subseteq Recorded(last.operations_before)
          /\ Range(last.errors) \subseteq Recorded(last.operations_before)
          /\ operations = last.operations_before

C26_Witness ==
    /\ last.call = "backup_file"
    /\ ~last.ret
    /\ ~dir_exists
    /\ operations # <<>>
    /\ last.path \notin Recorded(operations)

\* the events that end a run
Terminal == {"complete", "interrupted", "error"}

\* C27: when run() has returned, the session log begins with 'start', ends
\* with a terminal event ('complete', 'interrupted' or 'error'), and holds
\* exactly one terminal event, so that nothing is logged after it.
C27_OneTerminalEvent ==
    (Returned /\ outcome.kind = "return") =>
        /\ log_file # <<>>
        /\ log_file[1].action_type = "start"
        /\ log_file[Len(log_file)].action_type \in Terminal
        /\ Cardinality({k \in DOMAIN log_file :
                            log_file[k].action_type \in Terminal}) = 1

\* the events before the k-th that were logged with allowed=false
RefusedBefore(k) == {j \in 1..(k - 1) : ~log_file[j].allowed}

\* C28: every 'complete' event carries as total_actions the number of events
\* logged before it, and as blocked_actions the number of those events that
\* were logged with allowed=false.
C28_CompleteCounts ==
    \A k \in DOMAIN log_file :
        log_file[k].action_type = "complete" =>
            /\ log_file[k].details.total_actions = k - 1
            /\ log_file[k].details.blocked_actions = Cardinality(RefusedBefore(k))

C28_Witness ==
    /\ Returned
    /\ Len(log_file) = 4
    /\ log_file[4].action_type = "complete"
    /\ log_file[4].details.total_actions = 3
    /\ log_file[4].details.blocked_actions = 1
    /\ log_file[2].action_type = "file_access"

\* C29: a FileRollback constructed in a new process for an existing session
\* starts with no operations, so the rollback command changes no file and
\* reports 0 operations and no errors, whatever the backup directory holds;
\* and a run of AgentMonitor never records a backup operation: the
\* operations list is empty in every state of the run.
C29_NothingToRollBack ==
    /\ operations = <<>>
    /\ last.call = "cli_rollback" =>
          /\ last.rolled_back = 0
          /\ last.errors = <<>>
          /\ last.processed = <<>>
          /\ last.changed = {}

C29_Witness ==
    /\ mode = "namespace"
    /\ pc = "done"
    /\ outcome.kind = "return"
    /\ last.call = "cli_rollback"
    /\ last.ret
    /\ backup_files # <<>>
    /\ files[P_A] = "c0"
    /\ last.rolled_back = 0

\* C30: at most one monitoring loop is alive at any time, and whenever a
\* process runs the loop the PID file names that process, so that
\* is_running() is true and a further start() returns without starting a
\* second loop.
C30_SingleLoop ==
    /\ Cardinality(looping) <= 1
    /\ \A p \in looping :
         /\ pid_file = p
         /\ is_running(pid_file, alive)

====
